---------------------------- MODULE Spec2Model ----------------------------
(***************************************************************************)
(* A model of the python binding generator of genesis (tools/py_bindings): *)
(* the entity model (cpp_entities.py), its transform passes and the two    *)
(* binding writers (boost_writer.py, pybind11_writer.py).                  *)
(*                                                                         *)
(* Python strings are modelled as sequences of one-character strings, so   *)
(* that prefix tests, slicing, stripping, substitution, concatenation and  *)
(* the lexicographic order of sorted() are computed rather than assumed.   *)
(* A file is the text written to it.                                       *)
(***************************************************************************)
EXTENDS Naturals, Sequences, FiniteSets, TLC

(***************************************************************************)
(* Bounds of the model.                                                    *)
(***************************************************************************)
\* The number of add_function calls on the class of Spec.
MaxFuncs == 4
\* The number of add_function calls on the class of SpecMethods.
MaxMethods == 3
\* The number of add_function calls on the class of SpecOps.
MaxOps == 2

\* The number of compounds parse_xml_dir processes in SpecFiles.
MaxEntities == 2
\* The number of compounds of index.xml in SpecMain and SpecPipeline.
MaxCompounds == 2
\* The number of constructors of the class of SpecHeader.
MaxCtors == 3
\* The number of add_function calls on the namespaces of SpecSignatures.
MaxSignatures == 2
(***************************************************************************)
(* Python str and list operations.                                         *)
(***************************************************************************)
Range(s) == { s[i] : i \in 1..Len(s) }

\* The characters of the model (ASCII 10 and 32..126 without the backquote),
\* in code-point order.
CharOrder ==
    << "\n", " ", "!", "\"", "#", "$", "%", "&", "'", "(", ")", "*", "+", ",",
       "-", ".", "/", "0", "1", "2", "3", "4", "5", "6", "7", "8", "9", ":",
       ";", "<", "=", ">", "?", "@",
       "A", "B", "C", "D", "E", "F", "G", "H", "I", "J", "K", "L", "M",
       "N", "O", "P", "Q", "R", "S", "T", "U", "V", "W", "X", "Y", "Z",
       "[", "\\", "]", "^", "_",
       "a", "b", "c", "d", "e", "f", "g", "h", "i", "j", "k", "l", "m",
       "n", "o", "p", "q", "r", "s", "t", "u", "v", "w", "x", "y", "z",
       "{", "|", "}", "~" >>

\* ord(c), up to an order-preserving renumbering.
Ord == [ c \in Range(CharOrder) |-> CHOOSE i \in 1..Len(CharOrder) : CharOrder[i] = c ]

UpperCase == << "A", "B", "C", "D", "E", "F", "G", "H", "I", "J", "K", "L", "M",
                "N", "O", "P", "Q", "R", "S", "T", "U", "V", "W", "X", "Y", "Z" >>
LowerCase == << "a", "b", "c", "d", "e", "f", "g", "h", "i", "j", "k", "l", "m",
                "n", "o", "p", "q", "r", "s", "t", "u", "v", "w", "x", "y", "z" >>

\* c.lower() for one character.
LowerChar(c) ==
    IF \E i \in 1..Len(UpperCase) : UpperCase[i] = c
    THEN LowerCase[CHOOSE i \in 1..Len(UpperCase) : UpperCase[i] = c]
    ELSE c

\* s.lower()
Lower(s) == [ i \in 1..Len(s) |-> LowerChar(s[i]) ]

\* s.startswith(p)
StartsWith(s, p) == Len(s) >= Len(p) /\ SubSeq(s, 1, Len(p)) = p

\* s.endswith(p)
EndsWith(s, p) == Len(s) >= Len(p) /\ SubSeq(s, Len(s) - Len(p) + 1, Len(s)) = p

\* s[n:]
DropFirst(s, n) == SubSeq(s, n + 1, Len(s))

RECURSIVE LStrip(_, _)
\* s.lstrip(chars)
LStrip(s, chars) ==
    IF s # << >> /\ s[1] \in chars THEN LStrip(Tail(s), chars) ELSE s

RECURSIVE RStrip(_, _)
\* s.rstrip(chars)
RStrip(s, chars) ==
    IF s # << >> /\ s[Len(s)] \in chars
    THEN RStrip(SubSeq(s, 1, Len(s) - 1), chars)
    ELSE s

\* s.strip(chars)
Strip(s, chars) == RStrip(LStrip(s, chars), chars)

\* The characters of the model that str.strip() without argument removes.
Whitespace == { " ", "\n" }

\* re.sub('^' + pat, repl, s): the pattern is anchored at the start of s.
SubPrefix(pat, repl, s) ==
    IF StartsWith(s, pat) THEN repl \o DropFirst(s, Len(pat)) ELSE s

RECURSIVE Replace(_, _, _)
\* s.replace(old, new), for a non-empty old
Replace(s, old, new) ==
    IF Len(s) < Len(old) THEN s
    ELSE IF StartsWith(s, old)
         THEN new \o Replace(DropFirst(s, Len(old)), old, new)
         ELSE << s[1] >> \o Replace(Tail(s), old, new)

\* s.find(sub) + 1: the first position at which sub starts in s, 0 if none
Find(s, sub) ==
    LET at == { i \in 1..(Len(s) + 1 - Len(sub)) : SubSeq(s, i, i + Len(sub) - 1) = sub }
    IN  IF at = { } THEN 0 ELSE CHOOSE i \in at : \A j \in at : i <= j

\* s.rfind(sub) + 1: the last position at which sub starts in s, 0 if none
RFind(s, sub) ==
    LET at == { i \in 1..(Len(s) + 1 - Len(sub)) : SubSeq(s, i, i + Len(sub) - 1) = sub }
    IN  IF at = { } THEN 0 ELSE CHOOSE i \in at : \A j \in at : i >= j

RECURSIVE Split(_, _)
\* s.split(sep)
Split(s, sep) ==
    LET i == Find(s, sep)
    IN  IF i = 0 THEN << s >>
        ELSE << SubSeq(s, 1, i - 1) >> \o Split(DropFirst(s, i + Len(sep) - 1), sep)

\* s * n
Repeat(s, n) == IF n <= 0 THEN << >> ELSE [ i \in 1..(n * Len(s)) |-> s[((i - 1) % Len(s)) + 1] ]

\* os.path.splitext(p)[0]: p without its extension; a last component that
\* holds no dot but leading ones has no extension.
SplitExtRoot(p) ==
    LET sepIndex == RFind(p, << "/" >>)
        dotIndex == RFind(p, << "." >>)
    IN  IF dotIndex > sepIndex
           /\ \E k \in (sepIndex + 1)..(dotIndex - 1) : p[k] # "."
        THEN SubSeq(p, 1, dotIndex - 1)
        ELSE p

\* os.path.join(a, b)
PathJoin(a, b) ==
    IF StartsWith(b, << "/" >>) THEN b
    ELSE IF a = << >> \/ EndsWith(a, << "/" >>) THEN a \o b
    ELSE a \o << "/" >> \o b

\* x in lst, for a python list
InList(x, lst) == \E i \in 1..Len(lst) : lst[i] = x

RECURSIVE Concat(_)
\* ''.join(strs): the strings of a list, concatenated
Concat(strs) ==
    IF strs = << >> THEN << >> ELSE Head(strs) \o Concat(Tail(strs))

RECURSIVE Join(_, _)
\* sep.join(strs)
Join(sep, strs) ==
    IF strs = << >> THEN << >>
    ELSE IF Len(strs) = 1 THEN strs[1]
    ELSE strs[1] \o sep \o Join(sep, Tail(strs))

\* a < b for two python strings: the order sorted() uses.
StrLess(a, b) ==
    LET n    == IF Len(a) < Len(b) THEN Len(a) ELSE Len(b)
        diff == { i \in 1..n : a[i] # b[i] }
    IN  IF diff = { }
        THEN Len(a) < Len(b)
        ELSE LET k == CHOOSE i \in diff : \A j \in diff : i <= j
             IN  Ord[a[k]] < Ord[b[k]]

\* The sequences that hold every element of S once: the orders in which an
\* unordered collection may be iterated.
Orderings(S) ==
    { q \in [ 1..Cardinality(S) -> S ] : \A x \in S : \E i \in 1..Cardinality(S) : q[i] = x }

RECURSIVE SortedByName(_)
\* sorted(lst, key=lambda x: x.name): a stable sort of a list by name
SortedByName(lst) ==
    IF lst = << >> THEN << >>
    ELSE LET i == CHOOSE j \in 1..Len(lst) :
                     /\ \A k \in 1..Len(lst) : ~StrLess(lst[k].name, lst[j].name)
                     /\ \A k \in 1..(j - 1) : lst[k].name # lst[j].name
         IN  << lst[i] >>
                 \o SortedByName(SubSeq(lst, 1, i - 1) \o SubSeq(lst, i + 1, Len(lst)))

RECURSIVE Sorted(_)
\* sorted(S) for a set S of strings
Sorted(S) ==
    IF S = { } THEN << >>
    ELSE LET m == CHOOSE x \in S : \A y \in S : x = y \/ StrLess(x, y)
         IN  << m >> \o Sorted(S \ { m })

\* F(v), the value v computed once however often F reads it: a local
\* variable that holds a result.
With(v, F(_)) == CHOOSE result \in { F(x) : x \in { v } } : TRUE
(***************************************************************************)
(* String literals of cpp_entities.py.                                     *)
(***************************************************************************)
Str ==
    [ begin |-> << "b", "e", "g", "i", "n" >>, \* "begin"
      \* "end"
      end |-> << "e", "n", "d" >>,
      \* "Begin"
      Begin |-> << "B", "e", "g", "i", "n" >>,
      \* "End"
      End |-> << "E", "n", "d" >>,
      \* "operator"
      operator |-> << "o", "p", "e", "r", "a", "t", "o", "r" >>,
      \* "__iter__"
      iter |-> << "_", "_", "i", "t", "e", "r", "_", "_" >>,
      \* "~"
      tilde |-> << "~" >>,
      \* "::"
      scope |-> << ":", ":" >>,
      \* "static "
      static |-> << "s", "t", "a", "t", "i", "c", " " >>,
      \* " "
      space |-> << " " >>,
      \* " ("
      lparen |-> << " ", "(" >>,
      \* ", "
      comma |-> << ",", " " >>,
      \* ")"
      rparen |-> << ")" >>,
      \* " const"
      const |-> << " ", "c", "o", "n", "s", "t" >>,
      \* "="
      equals |-> << "=" >> ]

(***************************************************************************)
(* String literals the two writers share (lines of pybind11_writer.py).    *)
(***************************************************************************)
Txt ==
    [ backslash |-> << "\\" >>, \* "\\"
      \* """
      quote |-> << "\"" >>,
      \* "\n"
      newline |-> << "\n" >>,
      \* "\\\\"
      esc_backslash |-> << "\\", "\\" >>,
      \* "\\""
      esc_quote |-> << "\\", "\"" >>,
      \* "\\n"
      esc_newline |-> << "\\", "n" >>,
      \* "            ""
      name_open |->
          << " ", " ", " ", " ", " ", " ", " ", " ", " ", " ", " ", " ",
             "\"" >>,
      \* "",\n"
      name_close |-> << "\"", ",", "\n" >>,
      \* "            ( "
      sig_open |->
          << " ", " ", " ", " ", " ", " ", " ", " ", " ", " ", " ", " ", "(",
             " " >>,
      \* " ( "
      sig_ret |-> << " ", "(", " " >>,
      \* "*"
      star |-> << "*" >>,
      \* "::*"
      member_star |-> << ":", ":", "*" >>,
      \* " )( "
      sig_params |-> << " ", ")", "(", " " >>,
      \* " )"
      sig_close |-> << " ", ")" >>,
      \* " const "
      sig_const |-> << " ", "c", "o", "n", "s", "t", " " >>,
      \* ")( &"
      addr_open |-> << ")", "(", " ", "&" >>,
      \* "")"
      arg_close |-> << "\"", ")" >>,
      \* "=("
      default_open |-> << "=", "(" >>,
      \* ")("
      default_mid |-> << ")", "(" >>,
      \* ",\n            get_docstring(""
      doc_open |->
          << ",", "\n", " ", " ", " ", " ", " ", " ", " ", " ", " ", " ",
             " ", " ", "g", "e", "t", "_", "d", "o", "c", "s", "t", "r", "i",
             "n", "g", "(", "\"" >>,
      \* "")\n"
      doc_close |-> << "\"", ")", "\n" >>,
      \* "        )\n"
      body_close |-> << " ", " ", " ", " ", " ", " ", " ", " ", ")", "\n" >>,
      \* "Type"
      Type |-> << "T", "y", "p", "e" >>,
      \* "\n        // Public Member Functions\n\n"
      methods_header |->
          << "\n", " ", " ", " ", " ", " ", " ", " ", " ", "/", "/", " ",
             "P", "u", "b", "l", "i", "c", " ", "M", "e", "m", "b", "e", "r",
             " ", "F", "u", "n", "c", "t", "i", "o", "n", "s", "\n", "\n" >>,
      \* "*"
      ptr |-> << "*" >>,
      \* "&"
      ref |-> << "&" >> ]

(***************************************************************************)
(* String literals of pybind11_writer.py.                                  *)
(***************************************************************************)
Py ==
    [ def |->
          << " ", " ", " ", " ", " ", " ", " ", " ", ".", "d", "e", "f" >>,
      \* "_static"
      static |-> << "_", "s", "t", "a", "t", "i", "c" >>,
      \* "(\n"
      def_open |-> << "(", "\n" >>,
      \* ",\n            "
      arg_sep |->
          << ",", "\n", " ", " ", " ", " ", " ", " ", " ", " ", " ", " ",
             " ", " " >>,
      \* "pybind11::arg(""
      arg |->
          << "p", "y", "b", "i", "n", "d", "1", "1", ":", ":", "a", "r", "g",
             "(", "\"" >> ]

(***************************************************************************)
(* String literals of boost_writer.py.                                     *)
(***************************************************************************)
Bp ==
    [ def_open |->
          << " ", " ", " ", " ", " ", " ", " ", " ", ".", "d", "e", "f", "(",
             "\n" >>,
      \* ",\n            ( "
      args_open |->
          << ",", "\n", " ", " ", " ", " ", " ", " ", " ", " ", " ", " ",
             " ", " ", "(", " " >>,
      \* "boost::python::arg(""
      arg |->
          << "b", "o", "o", "s", "t", ":", ":", "p", "y", "t", "h", "o", "n",
             ":", ":", "a", "r", "g", "(", "\"" >>,
      \* ",\n            boost::python::return_value_policy<boost::python::reference_existing_object>()"
      return_policy |->
          << ",", "\n", " ", " ", " ", " ", " ", " ", " ", " ", " ", " ",
             " ", " ", "b", "o", "o", "s", "t", ":", ":", "p", "y", "t", "h",
             "o", "n", ":", ":", "r", "e", "t", "u", "r", "n", "_", "v", "a",
             "l", "u", "e", "_", "p", "o", "l", "i", "c", "y", "<", "b", "o",
             "o", "s", "t", ":", ":", "p", "y", "t", "h", "o", "n", ":", ":",
             "r", "e", "f", "e", "r", "e", "n", "c", "e", "_", "e", "x", "i",
             "s", "t", "i", "n", "g", "_", "o", "b", "j", "e", "c", "t", ">",
             "(", ")" >>,
      \* "        .staticmethod(""
      staticmethod |->
          << " ", " ", " ", " ", " ", " ", " ", " ", ".", "s", "t", "a", "t",
             "i", "c", "m", "e", "t", "h", "o", "d", "(", "\"" >> ]

(***************************************************************************)
(* String literals of classify_operator (the same in both writers).        *)
(***************************************************************************)
Ops ==
    [ prefix |-> << "o", "p", "e", "r", "a", "t", "o", "r" >> ] \* "operator"

(***************************************************************************)
(* String literals of Pybind11Writer.generate_class_operators.             *)
(***************************************************************************)
PyOp ==
    [ binary_open |->
          << " ", " ", " ", " ", " ", " ", " ", " ", ".", "d", "e", "f", "(",
             " ", "p", "y", "b", "i", "n", "d", "1", "1", ":", ":", "s", "e",
             "l", "f", " " >>,
      \* " pybind11::self )\n"
      binary_close |->
          << " ", "p", "y", "b", "i", "n", "d", "1", "1", ":", ":", "s", "e",
             "l", "f", " ", ")", "\n" >>,
      \* "        .def( "
      unary_open |->
          << " ", " ", " ", " ", " ", " ", " ", " ", ".", "d", "e", "f", "(",
             " " >>,
      \* "pybind11::self )\n"
      unary_close |->
          << "p", "y", "b", "i", "n", "d", "1", "1", ":", ":", "s", "e", "l",
             "f", " ", ")", "\n" >>,
      \* "__getitem__"
      getitem |-> << "_", "_", "g", "e", "t", "i", "t", "e", "m", "_", "_" >>,
      \* "        .def(\n            "__str__",\n            []( "
      str_open |->
          << " ", " ", " ", " ", " ", " ", " ", " ", ".", "d", "e", "f", "(",
             "\n", " ", " ", " ", " ", " ", " ", " ", " ", " ", " ", " ",
             " ", "\"", "_", "_", "s", "t", "r", "_", "_", "\"", ",", "\n",
             " ", " ", " ", " ", " ", " ", " ", " ", " ", " ", " ", " ", "[",
             "]", "(", " " >>,
      \* " const& obj ) -> std::string {\n                std::ostringstream s;\n                s << obj;\n                return s.str();\n            }\n        )\n"
      str_close |->
          << " ", "c", "o", "n", "s", "t", "&", " ", "o", "b", "j", " ", ")",
             " ", "-", ">", " ", "s", "t", "d", ":", ":", "s", "t", "r", "i",
             "n", "g", " ", "{", "\n", " ", " ", " ", " ", " ", " ", " ",
             " ", " ", " ", " ", " ", " ", " ", " ", " ", "s", "t", "d", ":",
             ":", "o", "s", "t", "r", "i", "n", "g", "s", "t", "r", "e", "a",
             "m", " ", "s", ";", "\n", " ", " ", " ", " ", " ", " ", " ",
             " ", " ", " ", " ", " ", " ", " ", " ", " ", "s", " ", "<", "<",
             " ", "o", "b", "j", ";", "\n", " ", " ", " ", " ", " ", " ",
             " ", " ", " ", " ", " ", " ", " ", " ", " ", " ", "r", "e", "t",
             "u", "r", "n", " ", "s", ".", "s", "t", "r", "(", ")", ";",
             "\n", " ", " ", " ", " ", " ", " ", " ", " ", " ", " ", " ",
             " ", "}", "\n", " ", " ", " ", " ", " ", " ", " ", " ", ")",
             "\n" >>,
      \* "\n        // Operators\n\n"
      header |->
          << "\n", " ", " ", " ", " ", " ", " ", " ", " ", "/", "/", " ",
             "O", "p", "e", "r", "a", "t", "o", "r", "s", "\n", "\n" >> ]

(***************************************************************************)
(* String literals of BoostPythonWriter.generate_class_operators.          *)
(***************************************************************************)
BpOp ==
    [ binary_open |->
          << " ", " ", " ", " ", " ", " ", " ", " ", ".", "d", "e", "f", "(",
             " ", "b", "o", "o", "s", "t", ":", ":", "p", "y", "t", "h", "o",
             "n", ":", ":", "s", "e", "l", "f", " " >>,
      \* " boost::python::self )\n"
      binary_close |->
          << " ", "b", "o", "o", "s", "t", ":", ":", "p", "y", "t", "h", "o",
             "n", ":", ":", "s", "e", "l", "f", " ", ")", "\n" >>,
      \* "        .def( "
      unary_open |->
          << " ", " ", " ", " ", " ", " ", " ", " ", ".", "d", "e", "f", "(",
             " " >>,
      \* "boost::python::self )\n"
      unary_close |->
          << "b", "o", "o", "s", "t", ":", ":", "p", "y", "t", "h", "o", "n",
             ":", ":", "s", "e", "l", "f", " ", ")", "\n" >>,
      \* "__getitem__"
      getitem |-> << "_", "_", "g", "e", "t", "i", "t", "e", "m", "_", "_" >>,
      \* "        .def( boost::python::self_ns::str( boost::python::self ) )\n"
      str |->
          << " ", " ", " ", " ", " ", " ", " ", " ", ".", "d", "e", "f", "(",
             " ", "b", "o", "o", "s", "t", ":", ":", "p", "y", "t", "h", "o",
             "n", ":", ":", "s", "e", "l", "f", "_", "n", "s", ":", ":", "s",
             "t", "r", "(", " ", "b", "o", "o", "s", "t", ":", ":", "p", "y",
             "t", "h", "o", "n", ":", ":", "s", "e", "l", "f", " ", ")", " ",
             ")", "\n" >>,
      \* "\n        // Operators\n\n"
      header |->
          << "\n", " ", " ", " ", " ", " ", " ", " ", " ", "/", "/", " ",
             "O", "p", "e", "r", "a", "t", "o", "r", "s", "\n", "\n" >> ]

(***************************************************************************)
(* String literals of make_section_header, generate_class,                 *)
(* generate_docstring_file, write_export_files and generate_files of       *)
(* pybind11_writer.py.                                                     *)
(***************************************************************************)
PyFile ==
    [ nl |-> << "\n" >>,
      \* " "
      blank |-> << " " >>,
      \* "// "
      comment |-> << "/", "/", " " >>,
      \* "//     "
      title |-> << "/", "/", " ", " ", " ", " ", " " >>,
      \* "\n\n"
      nl2 |-> << "\n", "\n" >>,
      \* "-"
      minor |-> << "-" >>,
      \* "Class "
      class_title |-> << "C", "l", "a", "s", "s", " " >>,
      \* "    using namespace "
      using_ns |->
          << " ", " ", " ", " ", "u", "s", "i", "n", "g", " ", "n", "a", "m",
             "e", "s", "p", "a", "c", "e", " " >>,
      \* ";\n\n"
      using_ns_end |-> << ";", "\n", "\n" >>,
      \* "    using "
      using |-> << " ", " ", " ", " ", "u", "s", "i", "n", "g", " " >>,
      \* "Type = "
      type_eq |-> << "T", "y", "p", "e", " ", "=", " " >>,
      \* "<"
      lt |-> << "<" >>,
      \* ", "
      comma |-> << ",", " " >>,
      \* ">;\n\n"
      gt_end |-> << ">", ";", "\n", "\n" >>,
      \* "    ;\n"
      class_end |-> << " ", " ", " ", " ", ";", "\n" >>,
      \* "docstrings.cpp"
      doc_file |->
          << "d", "o", "c", "s", "t", "r", "i", "n", "g", "s", ".", "c", "p",
             "p" >>,
      \* "/**\n* @brief Documentation strings for the Python module.\n *\n  ..."
      doc_header |->
          << "/", "*", "*", "\n", "*", " ", "@", "b", "r", "i", "e", "f",
             " ", "D", "o", "c", "u", "m", "e", "n", "t", "a", "t", "i", "o",
             "n", " ", "s", "t", "r", "i", "n", "g", "s", " ", "f", "o", "r",
             " ", "t", "h", "e", " ", "P", "y", "t", "h", "o", "n", " ", "m",
             "o", "d", "u", "l", "e", ".", "\n", " ", "*", "\n", " ", "*",
             " ", "@", "f", "i", "l", "e", "\n", " ", "*", " ", "@", "i",
             "n", "g", "r", "o", "u", "p", " ", "p", "y", "t", "h", "o", "n",
             "\n", " ", "*", "/", "\n", "\n", "#", "i", "n", "c", "l", "u",
             "d", "e", " ", "<", "s", "r", "c", "/", "c", "o", "m", "m", "o",
             "n", ".", "h", "p", "p", ">", "\n", "\n", "#", "i", "n", "c",
             "l", "u", "d", "e", " ", "<", "m", "a", "p", ">", "\n", "#",
             "i", "n", "c", "l", "u", "d", "e", " ", "<", "s", "t", "r", "i",
             "n", "g", ">", "\n", "\n", "s", "t", "a", "t", "i", "c", " ",
             "s", "t", "d", ":", ":", "m", "a", "p", "<", "s", "t", "d", ":",
             ":", "s", "t", "r", "i", "n", "g", ",", " ", "s", "t", "d", ":",
             ":", "s", "t", "r", "i", "n", "g", ">", " ", "d", "o", "c", "_",
             "s", "t", "r", "i", "n", "g", "s", "_", " ", "=", " ", "{",
             "\n" >>,
      \* "    {""
      entry_open |-> << " ", " ", " ", " ", "{", "\"" >>,
      \* "", ""
      entry_mid |-> << "\"", ",", " ", "\"" >>,
      \* "\\n\\n"
      entry_par |-> << "\\", "n", "\\", "n" >>,
      \* ""},\n"
      entry_close |-> << "\"", "}", ",", "\n" >>,
      \* "    // Class "
      class_comment |->
          << " ", " ", " ", " ", "/", "/", " ", "C", "l", "a", "s", "s",
             " " >>,
      \* "\n    // Functions\n"
      functions_comment |->
          << "\n", " ", " ", " ", " ", "/", "/", " ", "F", "u", "n", "c",
             "t", "i", "o", "n", "s", "\n" >>,
      \* "};\n\nconst char* get_docstring (const std::string& signature)\n{ ..."
      doc_footer |->
          << "}", ";", "\n", "\n", "c", "o", "n", "s", "t", " ", "c", "h",
             "a", "r", "*", " ", "g", "e", "t", "_", "d", "o", "c", "s", "t",
             "r", "i", "n", "g", " ", "(", "c", "o", "n", "s", "t", " ", "s",
             "t", "d", ":", ":", "s", "t", "r", "i", "n", "g", "&", " ", "s",
             "i", "g", "n", "a", "t", "u", "r", "e", ")", "\n", "{", "\n",
             " ", " ", " ", " ", "i", "f", " ", "(", "d", "o", "c", "_", "s",
             "t", "r", "i", "n", "g", "s", "_", ".", "c", "o", "u", "n", "t",
             "(", "s", "i", "g", "n", "a", "t", "u", "r", "e", ")", " ", ">",
             " ", "0", ")", " ", "{", "\n", " ", " ", " ", " ", " ", " ",
             " ", " ", "r", "e", "t", "u", "r", "n", " ", "d", "o", "c", "_",
             "s", "t", "r", "i", "n", "g", "s", "_", "[", "s", "i", "g", "n",
             "a", "t", "u", "r", "e", "]", ".", "c", "_", "s", "t", "r", "(",
             ")", ";", "\n", " ", " ", " ", " ", "}", " ", "e", "l", "s",
             "e", " ", "{", "\n", " ", " ", " ", " ", " ", " ", " ", " ",
             "r", "e", "t", "u", "r", "n", " ", "\"", "\"", ";", "\n", " ",
             " ", " ", " ", "}", "\n", "}", "\n" >>,
      \* "."
      dot |-> << "." >>,
      \* "/"
      slash |-> << "/" >>,
      \* "unnamed"
      unnamed |-> << "u", "n", "n", "a", "m", "e", "d" >>,
      \* "/**\n * @brief\n *\n * @file\n * @ingroup python\n */\n\n#include ..."
      file_header |->
          << "/", "*", "*", "\n", " ", "*", " ", "@", "b", "r", "i", "e",
             "f", "\n", " ", "*", "\n", " ", "*", " ", "@", "f", "i", "l",
             "e", "\n", " ", "*", " ", "@", "i", "n", "g", "r", "o", "u",
             "p", " ", "p", "y", "t", "h", "o", "n", "\n", " ", "*", "/",
             "\n", "\n", "#", "i", "n", "c", "l", "u", "d", "e", " ", "<",
             "s", "r", "c", "/", "c", "o", "m", "m", "o", "n", ".", "h", "p",
             "p", ">", "\n", "\n", "#", "i", "n", "c", "l", "u", "d", "e",
             " ", "\"", "g", "e", "n", "e", "s", "i", "s", "/", "g", "e",
             "n", "e", "s", "i", "s", ".", "h", "p", "p", "\"", "\n" >>,
      \* "\nusing namespace "
      using_open |->
          << "\n", "u", "s", "i", "n", "g", " ", "n", "a", "m", "e", "s",
             "p", "a", "c", "e", " " >>,
      \* ";\n"
      using_close |-> << ";", "\n" >>,
      \* "_"
      underscore |-> << "_" >>,
      \* "_export"
      export |-> << "_", "e", "x", "p", "o", "r", "t" >>,
      \* "\nPYTHON_EXPORT_FUNCTIONS( "
      fn_open |->
          << "\n", "P", "Y", "T", "H", "O", "N", "_", "E", "X", "P", "O",
             "R", "T", "_", "F", "U", "N", "C", "T", "I", "O", "N", "S", "(",
             " " >>,
      \* ", "
      fn_mid |-> << ",", " " >>,
      \* ", scope )\n{\n"
      fn_close |->
          << ",", " ", "s", "c", "o", "p", "e", " ", ")", "\n", "{", "\n" >>,
      \* "}\n"
      block_close |-> << "}", "\n" >>,
      \* "class"
      word_class |-> << "c", "l", "a", "s", "s" >>,
      \* "typename"
      word_typename |-> << "t", "y", "p", "e", "n", "a", "m", "e" >>,
      \* ","
      comma_char |-> << "," >>,
      \* "\ntemplate<"
      tmpl_open |-> << "\n", "t", "e", "m", "p", "l", "a", "t", "e", "<" >>,
      \* ">\n"
      tmpl_close |-> << ">", "\n" >>,
      \* "void python_export_function_"
      tmpl_fn_open |->
          << "v", "o", "i", "d", " ", "p", "y", "t", "h", "o", "n", "_", "e",
             "x", "p", "o", "r", "t", "_", "f", "u", "n", "c", "t", "i", "o",
             "n", "_" >>,
      \* " ()\n{\n"
      tmpl_fn_close |-> << " ", "(", ")", "\n", "{", "\n" >>,
      \* "::"
      scope_sep |-> << ":", ":" >>,
      \* ".hpp"
      ext_hpp |-> << ".", "h", "p", "p" >>,
      \* ".cpp"
      ext_cpp |-> << ".", "c", "p", "p" >>,
      \* "PYTHON_EXPORT_CLASS( "
      cls_open |->
          << "P", "Y", "T", "H", "O", "N", "_", "E", "X", "P", "O", "R", "T",
             "_", "C", "L", "A", "S", "S", "(", " " >>,
      \* ", scope )\n{\n"
      cls_close |->
          << ",", " ", "s", "c", "o", "p", "e", " ", ")", "\n", "{", "\n" >>,
      \* "template <"
      tmpl_cls_open |->
          << "t", "e", "m", "p", "l", "a", "t", "e", " ", "<" >>,
      \* ">\n"
      tmpl_cls_close |-> << ">", "\n" >>,
      \* "void PythonExportClass_"
      tmpl_cls_fn |->
          << "v", "o", "i", "d", " ", "P", "y", "t", "h", "o", "n", "E", "x",
             "p", "o", "r", "t", "C", "l", "a", "s", "s", "_" >>,
      \* "(std::string name)\n{\n"
      tmpl_cls_fn_close |->
          << "(", "s", "t", "d", ":", ":", "s", "t", "r", "i", "n", "g", " ",
             "n", "a", "m", "e", ")", "\n", "{", "\n" >> ]

(***************************************************************************)
(* The same literals of boost_writer.py.                                   *)
(***************************************************************************)
BpFile ==
    [ nl |-> << "\n" >>,
      \* " "
      blank |-> << " " >>,
      \* "// "
      comment |-> << "/", "/", " " >>,
      \* "//     "
      title |-> << "/", "/", " ", " ", " ", " ", " " >>,
      \* "\n\n"
      nl2 |-> << "\n", "\n" >>,
      \* "-"
      minor |-> << "-" >>,
      \* "Class "
      class_title |-> << "C", "l", "a", "s", "s", " " >>,
      \* "    using namespace "
      using_ns |->
          << " ", " ", " ", " ", "u", "s", "i", "n", "g", " ", "n", "a", "m",
             "e", "s", "p", "a", "c", "e", " " >>,
      \* ";\n\n"
      using_ns_end |-> << ";", "\n", "\n" >>,
      \* "    using "
      using |-> << " ", " ", " ", " ", "u", "s", "i", "n", "g", " " >>,
      \* "Type = "
      type_eq |-> << "T", "y", "p", "e", " ", "=", " " >>,
      \* "<"
      lt |-> << "<" >>,
      \* ", "
      comma |-> << ",", " " >>,
      \* ">;\n\n"
      gt_end |-> << ">", ";", "\n", "\n" >>,
      \* "    ;\n"
      class_end |-> << " ", " ", " ", " ", ";", "\n" >>,
      \* "docstrings.cpp"
      doc_file |->
          << "d", "o", "c", "s", "t", "r", "i", "n", "g", "s", ".", "c", "p",
             "p" >>,
      \* "/**\n* @brief Documentation strings for the Python module.\n *\n  ..."
      doc_header |->
          << "/", "*", "*", "\n", "*", " ", "@", "b", "r", "i", "e", "f",
             " ", "D", "o", "c", "u", "m", "e", "n", "t", "a", "t", "i", "o",
             "n", " ", "s", "t", "r", "i", "n", "g", "s", " ", "f", "o", "r",
             " ", "t", "h", "e", " ", "P", "y", "t", "h", "o", "n", " ", "m",
             "o", "d", "u", "l", "e", ".", "\n", " ", "*", "\n", " ", "*",
             " ", "@", "f", "i", "l", "e", "\n", " ", "*", " ", "@", "i",
             "n", "g", "r", "o", "u", "p", " ", "p", "y", "t", "h", "o", "n",
             "\n", " ", "*", "/", "\n", "\n", "#", "i", "n", "c", "l", "u",
             "d", "e", " ", "<", "p", "y", "t", "h", "o", "n", "/", "s", "r",
             "c", "/", "c", "o", "m", "m", "o", "n", ".", "h", "p", "p", ">",
             "\n", "\n", "#", "i", "n", "c", "l", "u", "d", "e", " ", "<",
             "m", "a", "p", ">", "\n", "#", "i", "n", "c", "l", "u", "d",
             "e", " ", "<", "s", "t", "r", "i", "n", "g", ">", "\n", "\n",
             "s", "t", "a", "t", "i", "c", " ", "s", "t", "d", ":", ":", "m",
             "a", "p", "<", "s", "t", "d", ":", ":", "s", "t", "r", "i", "n",
             "g", ",", " ", "s", "t", "d", ":", ":", "s", "t", "r", "i", "n",
             "g", ">", " ", "d", "o", "c", "_", "s", "t", "r", "i", "n", "g",
             "s", "_", " ", "=", " ", "{", "\n" >>,
      \* "    {""
      entry_open |-> << " ", " ", " ", " ", "{", "\"" >>,
      \* "", ""
      entry_mid |-> << "\"", ",", " ", "\"" >>,
      \* "\\n\\n"
      entry_par |-> << "\\", "n", "\\", "n" >>,
      \* ""},\n"
      entry_close |-> << "\"", "}", ",", "\n" >>,
      \* "};\n\nconst char* get_docstring (const std::string& signature)\n{ ..."
      doc_footer |->
          << "}", ";", "\n", "\n", "c", "o", "n", "s", "t", " ", "c", "h",
             "a", "r", "*", " ", "g", "e", "t", "_", "d", "o", "c", "s", "t",
             "r", "i", "n", "g", " ", "(", "c", "o", "n", "s", "t", " ", "s",
             "t", "d", ":", ":", "s", "t", "r", "i", "n", "g", "&", " ", "s",
             "i", "g", "n", "a", "t", "u", "r", "e", ")", "\n", "{", "\n",
             " ", " ", " ", " ", "i", "f", " ", "(", "d", "o", "c", "_", "s",
             "t", "r", "i", "n", "g", "s", "_", ".", "c", "o", "u", "n", "t",
             "(", "s", "i", "g", "n", "a", "t", "u", "r", "e", ")", " ", ">",
             " ", "0", ")", " ", "{", "\n", " ", " ", " ", " ", " ", " ",
             " ", " ", "r", "e", "t", "u", "r", "n", " ", "d", "o", "c", "_",
             "s", "t", "r", "i", "n", "g", "s", "_", "[", "s", "i", "g", "n",
             "a", "t", "u", "r", "e", "]", ".", "c", "_", "s", "t", "r", "(",
             ")", ";", "\n", " ", " ", " ", " ", "}", " ", "e", "l", "s",
             "e", " ", "{", "\n", " ", " ", " ", " ", " ", " ", " ", " ",
             "r", "e", "t", "u", "r", "n", " ", "\"", "\"", ";", "\n", " ",
             " ", " ", " ", "}", "\n", "}", "\n" >>,
      \* "."
      dot |-> << "." >>,
      \* "/"
      slash |-> << "/" >>,
      \* "unnamed"
      unnamed |-> << "u", "n", "n", "a", "m", "e", "d" >>,
      \* "/**\n * @brief\n *\n * @file\n * @ingroup python\n */\n\n#include ..."
      file_header |->
          << "/", "*", "*", "\n", " ", "*", " ", "@", "b", "r", "i", "e",
             "f", "\n", " ", "*", "\n", " ", "*", " ", "@", "f", "i", "l",
             "e", "\n", " ", "*", " ", "@", "i", "n", "g", "r", "o", "u",
             "p", " ", "p", "y", "t", "h", "o", "n", "\n", " ", "*", "/",
             "\n", "\n", "#", "i", "n", "c", "l", "u", "d", "e", " ", "<",
             "p", "y", "t", "h", "o", "n", "/", "s", "r", "c", "/", "c", "o",
             "m", "m", "o", "n", ".", "h", "p", "p", ">", "\n", "\n", "#",
             "i", "n", "c", "l", "u", "d", "e", " ", "\"", "l", "i", "b",
             "/", "g", "e", "n", "e", "s", "i", "s", ".", "h", "p", "p",
             "\"", "\n" >>,
      \* "\nusing namespace "
      using_open |->
          << "\n", "u", "s", "i", "n", "g", " ", "n", "a", "m", "e", "s",
             "p", "a", "c", "e", " " >>,
      \* ";\n"
      using_close |-> << ";", "\n" >>,
      \* "_"
      underscore |-> << "_" >>,
      \* "_export"
      export |-> << "_", "e", "x", "p", "o", "r", "t" >>,
      \* "\nPYTHON_EXPORT_FUNCTIONS("
      fn_open |->
          << "\n", "P", "Y", "T", "H", "O", "N", "_", "E", "X", "P", "O",
             "R", "T", "_", "F", "U", "N", "C", "T", "I", "O", "N", "S",
             "(" >>,
      \* ", ""
      fn_mid |-> << ",", " ", "\"" >>,
      \* "")\n{\n"
      fn_close |-> << "\"", ")", "\n", "{", "\n" >>,
      \* "}\n"
      block_close |-> << "}", "\n" >>,
      \* "class"
      word_class |-> << "c", "l", "a", "s", "s" >>,
      \* "typename"
      word_typename |-> << "t", "y", "p", "e", "n", "a", "m", "e" >>,
      \* ","
      comma_char |-> << "," >>,
      \* "\ntemplate<"
      tmpl_open |-> << "\n", "t", "e", "m", "p", "l", "a", "t", "e", "<" >>,
      \* ">\n"
      tmpl_close |-> << ">", "\n" >>,
      \* "void python_export_function_"
      tmpl_fn_open |->
          << "v", "o", "i", "d", " ", "p", "y", "t", "h", "o", "n", "_", "e",
             "x", "p", "o", "r", "t", "_", "f", "u", "n", "c", "t", "i", "o",
             "n", "_" >>,
      \* " ()\n{\n"
      tmpl_fn_close |-> << " ", "(", ")", "\n", "{", "\n" >>,
      \* "::"
      scope_sep |-> << ":", ":" >>,
      \* ".hpp"
      ext_hpp |-> << ".", "h", "p", "p" >>,
      \* ".cpp"
      ext_cpp |-> << ".", "c", "p", "p" >>,
      \* "PYTHON_EXPORT_CLASS ("
      cls_open |->
          << "P", "Y", "T", "H", "O", "N", "_", "E", "X", "P", "O", "R", "T",
             "_", "C", "L", "A", "S", "S", " ", "(" >>,
      \* ", ""
      cls_mid |-> << ",", " ", "\"" >>,
      \* "")\n{\n"
      cls_close |-> << "\"", ")", "\n", "{", "\n" >>,
      \* "template <"
      tmpl_cls_open |->
          << "t", "e", "m", "p", "l", "a", "t", "e", " ", "<" >>,
      \* ">\n"
      tmpl_cls_close |-> << ">", "\n" >>,
      \* "void PythonExportClass_"
      tmpl_cls_fn |->
          << "v", "o", "i", "d", " ", "P", "y", "t", "h", "o", "n", "E", "x",
             "p", "o", "r", "t", "C", "l", "a", "s", "s", "_" >>,
      \* "(std::string name)\n{\n"
      tmpl_cls_fn_close |->
          << "(", "s", "t", "d", ":", ":", "s", "t", "r", "i", "n", "g", " ",
             "n", "a", "m", "e", ")", "\n", "{", "\n" >> ]

(***************************************************************************)
(* String literals of pybind11_writer.py, by line.                         *)
(***************************************************************************)
PyL ==
    [ L81_1 |->
          << " ", " ", " ", " ", "s", "c", "o", "p", "e", ".", "d", "e", "f",
             "(", "\n" >>,
      \* "        ""
      L82_1 |-> << " ", " ", " ", " ", " ", " ", " ", " ", "\"" >>,
      \* "",\n"
      L82_3 |-> << "\"", ",", "\n" >>,
      \* "        ( "
      L83_1 |-> << " ", " ", " ", " ", " ", " ", " ", " ", "(", " " >>,
      \* " ( * )( "
      L83_2 |-> << " ", "(", " ", "*", " ", ")", "(", " " >>,
      \* ", "
      L84_1 |-> << ",", " " >>,
      \* " )"
      L89_1 |-> << " ", ")" >>,
      \* ")( &"
      L90_1 |-> << ")", "(", " ", "&" >>,
      \* " )"
      L90_2 |-> << " ", ")" >>,
      \* ",\n            "
      L94_1 |->
          << ",", "\n", " ", " ", " ", " ", " ", " ", " ", " ", " ", " ",
             " ", " " >>,
      \* "pybind11::arg(""
      L95_1 |->
          << "p", "y", "b", "i", "n", "d", "1", "1", ":", ":", "a", "r", "g",
             "(", "\"" >>,
      \* "")"
      L95_2 |-> << "\"", ")" >>,
      \* "=("
      L97_1 |-> << "=", "(" >>,
      \* ")("
      L97_2 |-> << ")", "(" >>,
      \* ")"
      L97_3 |-> << ")" >>,
      \* ",\n        get_docstring(""
      L103_1 |->
          << ",", "\n", " ", " ", " ", " ", " ", " ", " ", " ", "g", "e",
             "t", "_", "d", "o", "c", "s", "t", "r", "i", "n", "g", "(",
             "\"" >>,
      \* "")\n"
      L103_2 |-> << "\"", ")", "\n" >>,
      \* "\n"
      L105_1 |-> << "\n" >>,
      \* "    );\n"
      L106_1 |-> << " ", " ", " ", " ", ")", ";", "\n" >>,
      \* """
      L117_1 |-> << "\"" >>,
      \* """
      L117_2 |-> << "\"" >>,
      \* "Type"
      L119_1 |-> << "T", "y", "p", "e" >>,
      \* "name.c_str()"
      L120_1 |->
          << "n", "a", "m", "e", ".", "c", "_", "s", "t", "r", "(", ")" >>,
      \* "    pybind11::class_< "
      L122_1 |->
          << " ", " ", " ", " ", "p", "y", "b", "i", "n", "d", "1", "1", ":",
             ":", "c", "l", "a", "s", "s", "_", "<", " " >>,
      \* ", std::shared_ptr<"
      L122_2 |->
          << ",", " ", "s", "t", "d", ":", ":", "s", "h", "a", "r", "e", "d",
             "_", "p", "t", "r", "<" >>,
      \* "> > "
      L122_3 |-> << ">", " ", ">", " " >>,
      \* "( scope, "
      L123_1 |-> << "(", " ", "s", "c", "o", "p", "e", ",", " " >>,
      \* " )\n"
      L123_2 |-> << " ", ")", "\n" >>,
      \* " &&"
      L128_1 |-> << " ", "&", "&" >>,
      \* "        .def(\n"
      L131_1 |->
          << " ", " ", " ", " ", " ", " ", " ", " ", ".", "d", "e", "f", "(",
             "\n" >>,
      \* "            pybind11::init< "
      L132_1 |->
          << " ", " ", " ", " ", " ", " ", " ", " ", " ", " ", " ", " ", "p",
             "y", "b", "i", "n", "d", "1", "1", ":", ":", "i", "n", "i", "t",
             "<", " " >>,
      \* ", "
      L133_1 |-> << ",", " " >>,
      \* " >()"
      L134_1 |-> << " ", ">", "(", ")" >>,
      \* ",\n            "
      L136_1 |->
          << ",", "\n", " ", " ", " ", " ", " ", " ", " ", " ", " ", " ",
             " ", " " >>,
      \* "pybind11::arg(""
      L137_1 |->
          << "p", "y", "b", "i", "n", "d", "1", "1", ":", ":", "a", "r", "g",
             "(", "\"" >>,
      \* "arg"
      L137_3 |-> << "a", "r", "g" >>,
      \* "")"
      L137_4 |-> << "\"", ")" >>,
      \* "=("
      L139_1 |-> << "=", "(" >>,
      \* ")("
      L139_2 |-> << ")", "(" >>,
      \* ")"
      L139_3 |-> << ")" >>,
      \* ",\n            get_docstring(""
      L142_1 |->
          << ",", "\n", " ", " ", " ", " ", " ", " ", " ", " ", " ", " ",
             " ", " ", "g", "e", "t", "_", "d", "o", "c", "s", "t", "r", "i",
             "n", "g", "(", "\"" >>,
      \* "")\n"
      L142_2 |-> << "\"", ")", "\n" >>,
      \* "\n"
      L144_1 |-> << "\n" >>,
      \* "        )\n"
      L145_1 |-> << " ", " ", " ", " ", " ", " ", " ", " ", ")", "\n" >>,
      \* "Type"
      L318_1 |-> << "T", "y", "p", "e" >>,
      \* "\n        // Iterators\n\n"
      L322_1 |->
          << "\n", " ", " ", " ", " ", " ", " ", " ", " ", "/", "/", " ",
             "I", "t", "e", "r", "a", "t", "o", "r", "s", "\n", "\n" >>,
      \* "        .def(\n"
      L324_1 |->
          << " ", " ", " ", " ", " ", " ", " ", " ", ".", "d", "e", "f", "(",
             "\n" >>,
      \* "            ""
      L330_1 |->
          << " ", " ", " ", " ", " ", " ", " ", " ", " ", " ", " ", " ",
             "\"" >>,
      \* "",\n"
      L330_2 |-> << "\"", ",", "\n" >>,
      \* "            []( "
      L331_1 |->
          << " ", " ", " ", " ", " ", " ", " ", " ", " ", " ", " ", " ", "[",
             "]", "(", " " >>,
      \* "& obj ){\n"
      L331_2 |-> << "&", " ", "o", "b", "j", " ", ")", "{", "\n" >>,
      \* "                return pybind11::make_iterator( "
      L332_1 |->
          << " ", " ", " ", " ", " ", " ", " ", " ", " ", " ", " ", " ", " ",
             " ", " ", " ", "r", "e", "t", "u", "r", "n", " ", "p", "y", "b",
             "i", "n", "d", "1", "1", ":", ":", "m", "a", "k", "e", "_", "i",
             "t", "e", "r", "a", "t", "o", "r", "(", " " >>,
      \* "obj."
      L333_1 |-> << "o", "b", "j", "." >>,
      \* "(), obj."
      L333_2 |-> << "(", ")", ",", " ", "o", "b", "j", "." >>,
      \* "() );\n"
      L333_3 |-> << "(", ")", " ", ")", ";", "\n" >>,
      \* "            },\n"
      L334_1 |->
          << " ", " ", " ", " ", " ", " ", " ", " ", " ", " ", " ", " ", "}",
             ",", "\n" >>,
      \* "            py::keep_alive<0, 1>()\n"
      L335_1 |->
          << " ", " ", " ", " ", " ", " ", " ", " ", " ", " ", " ", " ", "p",
             "y", ":", ":", "k", "e", "e", "p", "_", "a", "l", "i", "v", "e",
             "<", "0", ",", " ", "1", ">", "(", ")", "\n" >>,
      \* "        )\n"
      L336_1 |-> << " ", " ", " ", " ", " ", " ", " ", " ", ")", "\n" >> ]

(***************************************************************************)
(* String literals of boost_writer.py, by line.                            *)
(***************************************************************************)
BpL ==
    [ L81_1 |->
          << " ", " ", " ", " ", "b", "o", "o", "s", "t", ":", ":", "p", "y",
             "t", "h", "o", "n", ":", ":", "d", "e", "f", "(", "\n" >>,
      \* "        ""
      L82_1 |-> << " ", " ", " ", " ", " ", " ", " ", " ", "\"" >>,
      \* "",\n"
      L82_3 |-> << "\"", ",", "\n" >>,
      \* "        ( "
      L83_1 |-> << " ", " ", " ", " ", " ", " ", " ", " ", "(", " " >>,
      \* " ( * )( "
      L83_2 |-> << " ", "(", " ", "*", " ", ")", "(", " " >>,
      \* ", "
      L84_1 |-> << ",", " " >>,
      \* " )"
      L89_1 |-> << " ", ")" >>,
      \* ")( &"
      L90_1 |-> << ")", "(", " ", "&" >>,
      \* " )"
      L90_2 |-> << " ", ")" >>,
      \* ",\n        ( "
      L92_1 |->
          << ",", "\n", " ", " ", " ", " ", " ", " ", " ", " ", "(", " " >>,
      \* ", "
      L92_2 |-> << ",", " " >>,
      \* "boost::python::arg(""
      L94_1 |->
          << "b", "o", "o", "s", "t", ":", ":", "p", "y", "t", "h", "o", "n",
             ":", ":", "a", "r", "g", "(", "\"" >>,
      \* "")"
      L94_2 |-> << "\"", ")" >>,
      \* "=("
      L96_1 |-> << "=", "(" >>,
      \* ")("
      L96_2 |-> << ")", "(" >>,
      \* ")"
      L96_3 |-> << ")" >>,
      \* " )"
      L99_1 |-> << " ", ")" >>,
      \* "*"
      L100_1 |-> << "*" >>,
      \* "&"
      L100_2 |-> << "&" >>,
      \* ",\n        boost::python::return_value_policy<boost::python::refe ..."
      L101_1 |->
          << ",", "\n", " ", " ", " ", " ", " ", " ", " ", " ", "b", "o",
             "o", "s", "t", ":", ":", "p", "y", "t", "h", "o", "n", ":", ":",
             "r", "e", "t", "u", "r", "n", "_", "v", "a", "l", "u", "e", "_",
             "p", "o", "l", "i", "c", "y", "<", "b", "o", "o", "s", "t", ":",
             ":", "p", "y", "t", "h", "o", "n", ":", ":", "r", "e", "f", "e",
             "r", "e", "n", "c", "e", "_", "e", "x", "i", "s", "t", "i", "n",
             "g", "_", "o", "b", "j", "e", "c", "t", ">", "(", ")" >>,
      \* ",\n        get_docstring(""
      L104_1 |->
          << ",", "\n", " ", " ", " ", " ", " ", " ", " ", " ", "g", "e",
             "t", "_", "d", "o", "c", "s", "t", "r", "i", "n", "g", "(",
             "\"" >>,
      \* "")\n"
      L104_2 |-> << "\"", ")", "\n" >>,
      \* "\n"
      L106_1 |-> << "\n" >>,
      \* "    );\n"
      L107_1 |-> << " ", " ", " ", " ", ")", ";", "\n" >>,
      \* "boost::python::init< "
      L116_1 |->
          << "b", "o", "o", "s", "t", ":", ":", "p", "y", "t", "h", "o", "n",
             ":", ":", "i", "n", "i", "t", "<", " " >>,
      \* ", "
      L117_1 |-> << ",", " " >>,
      \* "boost::python::optional< "
      L120_1 |->
          << "b", "o", "o", "s", "t", ":", ":", "p", "y", "t", "h", "o", "n",
             ":", ":", "o", "p", "t", "i", "o", "n", "a", "l", "<", " " >>,
      \* " >"
      L120_2 |-> << " ", ">" >>,
      \* " >("
      L123_1 |-> << " ", ">", "(" >>,
      \* "( "
      L124_1 |-> << "(", " " >>,
      \* " "
      L124_2 |-> << " " >>,
      \* ", "
      L125_1 |-> << ",", " " >>,
      \* "boost::python::arg(""
      L127_1 |->
          << "b", "o", "o", "s", "t", ":", ":", "p", "y", "t", "h", "o", "n",
             ":", ":", "a", "r", "g", "(", "\"" >>,
      \* "")"
      L127_2 |-> << "\"", ")" >>,
      \* "=("
      L129_1 |-> << "=", "(" >>,
      \* ")("
      L129_2 |-> << ")", "(" >>,
      \* ")"
      L129_3 |-> << ")" >>,
      \* " )"
      L133_1 |-> << " ", ")" >>,
      \* ")"
      L134_1 |-> << ")" >>,
      \* ", "
      L140_1 |-> << ",", " " >>,
      \* """
      L146_1 |-> << "\"" >>,
      \* """
      L146_2 |-> << "\"" >>,
      \* "Type"
      L148_1 |-> << "T", "y", "p", "e" >>,
      \* "name.c_str()"
      L149_1 |->
          << "n", "a", "m", "e", ".", "c", "_", "s", "t", "r", "(", ")" >>,
      \* "    boost::python::class_< "
      L151_1 |->
          << " ", " ", " ", " ", "b", "o", "o", "s", "t", ":", ":", "p", "y",
             "t", "h", "o", "n", ":", ":", "c", "l", "a", "s", "s", "_", "<",
             " " >>,
      \* " > "
      L151_2 |-> << " ", ">", " " >>,
      \* "( "
      L152_1 |-> << "(", " " >>,
      \* " )\n"
      L152_2 |-> << " ", ")", "\n" >>,
      \* " &&"
      L156_1 |-> << " ", "&", "&" >>,
      \* "        .def( "
      L159_1 |->
          << " ", " ", " ", " ", " ", " ", " ", " ", ".", "d", "e", "f", "(",
             " " >>,
      \* " )\n"
      L161_1 |-> << " ", ")", "\n" >>,
      \* "Type"
      L335_1 |-> << "T", "y", "p", "e" >>,
      \* "\n        // Iterators\n\n"
      L339_1 |->
          << "\n", " ", " ", " ", " ", " ", " ", " ", " ", "/", "/", " ",
             "I", "t", "e", "r", "a", "t", "o", "r", "s", "\n", "\n" >>,
      \* "__iter__"
      L341_1 |-> << "_", "_", "i", "t", "e", "r", "_", "_" >>,
      \* "        .def"
      L342_1 |->
          << " ", " ", " ", " ", " ", " ", " ", " ", ".", "d", "e", "f" >>,
      \* "        .add_property"
      L344_1 |->
          << " ", " ", " ", " ", " ", " ", " ", " ", ".", "a", "d", "d", "_",
             "p", "r", "o", "p", "e", "r", "t", "y" >>,
      \* "(\n            ""
      L345_1 |->
          << "(", "\n", " ", " ", " ", " ", " ", " ", " ", " ", " ", " ",
             " ", " ", "\"" >>,
      \* "",\n            boost::python::range ( &"
      L345_2 |->
          << "\"", ",", "\n", " ", " ", " ", " ", " ", " ", " ", " ", " ",
             " ", " ", " ", "b", "o", "o", "s", "t", ":", ":", "p", "y", "t",
             "h", "o", "n", ":", ":", "r", "a", "n", "g", "e", " ", "(", " ",
             "&" >>,
      \* "::"
      L346_1 |-> << ":", ":" >>,
      \* ", &"
      L346_2 |-> << ",", " ", "&" >>,
      \* "::"
      L347_1 |-> << ":", ":" >>,
      \* " )\n        )\n"
      L348_1 |->
          << " ", ")", "\n", " ", " ", " ", " ", " ", " ", " ", " ", ")",
             "\n" >> ]

(***************************************************************************)
(* Entities (cpp_entities.py).  The fields prot and virtual of a function  *)
(* and the documentation texts of a class are written by the reader and    *)
(* read by nothing; they are left out.                                     *)
(***************************************************************************)
\* None, and a python list, as the value of template_params.
None == [ is_none |-> TRUE, list |-> << >> ]
Some(lst) == [ is_none |-> FALSE, list |-> lst ]

\* CppParameter, with the fields the reader assigns.
CppParameter(type, pname, value) ==
    [ type |-> type, name |-> pname, value |-> value ]

\* None as the value of a parameter (element.text of an element without
\* text): a text of one element that is no character.
NoneText == << "None" >>

\* CppParameter.cpp_signature: the parameter after the call, which replaces
\* the value None by "".
CppParameter_after_cpp_signature(param) ==
    [ param EXCEPT !.value = IF @ = NoneText THEN << >> ELSE @ ]

\* CppParameter.cpp_signature: the text returned
CppParameter_cpp_signature(param) ==
    param.type \o Str.space \o param.name
        \o (IF CppParameter_after_cpp_signature(param).value # << >>
            THEN Str.equals \o param.value ELSE << >>)

\* CppFunction(): the fields as the constructor sets them.  id stands for the
\* identity of the python object; parent holds cpp_full_name() of the owner,
\* the only use the program makes of a function's parent.
CppFunction(id, fname) ==
    [ id                  |-> id,
      parent              |-> << >>,
      name                |-> fname,
      template_params     |-> None,
      static              |-> FALSE,
      const               |-> FALSE,
      type                |-> << >>,
      params              |-> << >>,
      briefdescription    |-> << >>,
      detaileddescription |-> << >>,
      location            |-> << >> ]

\* CppFunction.cpp_full_name
CppFunction_cpp_full_name(func) == func.parent \o Str.scope \o func.name

\* CppFunction.cpp_signature(full=True)
CppFunction_cpp_signature(func) ==
    (IF func.static THEN Str.static ELSE << >>)
        \o (IF func.type # << >> THEN func.type \o Str.space ELSE << >>)
        \o func.parent \o Str.scope \o func.name
        \o Str.lparen
        \o Join(Str.comma, [ i \in 1..Len(func.params) |->
                             CppParameter_cpp_signature(func.params[i]) ])
        \o Str.rparen
        \o (IF func.const THEN Str.const ELSE << >>)

\* CppIterator(), filled by add_named_iterator.
CppIterator(py_name, begin, end) ==
    [ name |-> py_name, begin |-> begin, end |-> end ]

\* CppClass.cpp_full_name, for a class record
CppClass_cpp_full_name(clss) == clss.parent \o Str.scope \o clss.name

(***************************************************************************)
(* Inputs: what the reader finds in the documentation XML.                 *)
(***************************************************************************)
Nm ==
    [ Tree      |-> << "T", "r", "e", "e" >>,
      \* a class whose own name starts with "operator"
      operators |-> << "o", "p", "e", "r", "a", "t", "o", "r", "s" >>,
      opEq      |-> Str.operator \o << "=", "=" >>,
      size      |-> << "s", "i", "z", "e" >>,
      beginX    |-> Str.begin \o << "X" >>,
      endX      |-> Str.end \o << "X" >>,
      Begin_X   |-> Str.Begin \o << "_", "X" >>,
      End_X     |-> Str.End \o << "_", "X" >>,
      \* a name that matches begin... only case-insensitively
      BEGINx    |-> << "B", "E", "G", "I", "N", "x" >>,
      at        |-> << "a", "t" >>,
      make      |-> << "m", "a", "k", "e" >>,
      int       |-> << "i", "n", "t" >>,
      int_ref   |-> << "i", "n", "t", " ", "&" >>,
      i         |-> << "i" >>,
      zero      |-> << "0" >>,
      doc       |-> << "d", "o", "c" >>,
      more      |-> << "m", "o", "r", "e" >>,
      \* names of classes, free functions and namespaces
      Node      |-> << "N", "o", "d", "e" >>,
      Leaf      |-> << "L", "e", "a", "f" >>,
      Thing     |-> << "T", "h", "i", "n", "g" >>,
      bar       |-> << "b", "a", "r" >>,
      find      |-> << "f", "i", "n", "d" >>,
      conv      |-> << "c", "o", "n", "v" >>,
      far       |-> << "f", "a", "r" >>,
      tree      |-> << "t", "r", "e", "e" >>,
      deep      |-> << "d", "e", "e", "p" >>,
      other     |-> << "o", "t", "h", "e", "r" >>,
      \* locations, as shorten_location_prefix leaves them
      tree_hpp  |-> << "t", "r", "e", "e", "/", "t", "r", "e", "e", ".", "h", "p", "p" >>,
      bar_hpp   |-> << "/", "b", "a", "r", ".", "h", "p", "p" >>,
      leaf_hpp  |-> << "t", "r", "e", "e", "/", "d", "e", "e", "p", "/",
                       "l", "e", "a", "f", ".", "h", "p", "p" >>,
      thing_hpp |-> << "o", "t", "h", "e", "r", "/", "t", "h", "i", "n", "g", ".", "h", "p", "p" >>,
      \* the output directory, the module name, the content of an old file
      src       |-> << ".", "/", "s", "r", "c" >>,
      xml       |-> << ".", "/", "x", "m", "l" >>,
      genesis   |-> << "g", "e", "n", "e", "s", "i", "s" >>,
      old       |-> << "o", "l", "d" >>,
      T         |-> << "c", "l", "a", "s", "s", " ", "T" >> ]

\* cpp_full_name() of the namespace genesis, child of the root namespace.
ns_genesis  == Str.scope \o << "g", "e", "n", "e", "s", "i", "s" >>

ClassNames == { Nm.Tree, Nm.operators }

\* The member names the reader may hand to add_function of class cn: the
\* iterator-shaped names for class Tree, a plain method for class operators.
MemberNames(cn) ==
    { cn, Str.tilde \o cn, Nm.opEq } \cup
    ( IF cn = Nm.Tree
      THEN { Str.begin, Str.end, Nm.beginX, Nm.endX, Nm.Begin_X, Nm.End_X, Nm.BEGINx }
      ELSE { Nm.size } )

\* Methods as parse_function returns them: int at(), its overloads
\* at(int i) and at(int i = 0), int & at() const, a documented static
\* make(), and an at() that differs from the first in its detailed
\* description only.
MethodPool ==
    LET at == [ CppFunction(0, Nm.at) EXCEPT !.type = Nm.int ]
    IN  { at,
          [ at EXCEPT !.params = << CppParameter(Nm.int, Nm.i, << >>) >> ],
          [ at EXCEPT !.params = << CppParameter(Nm.int, Nm.i, Nm.zero) >> ],
          [ at EXCEPT !.type = Nm.int_ref, !.const = TRUE ],
          [ at EXCEPT !.name = Nm.make, !.static = TRUE, !.briefdescription = Nm.doc ],
          [ at EXCEPT !.detaileddescription = Nm.more ] }

\* The texts that follow "operator" in the names handed to classify_operator:
\* the operator symbols of C++ that the writers know, and "," "&&" ">>"
\* "new", the empty text and "s_x".
OperatorTokens ==
    { << "+", "=" >>, << "-", "=" >>, << "*", "=" >>, << "/", "=" >>,
      << "%", "=" >>, << ">", ">", "=" >>, << "<", "<", "=" >>,
      << "&", "=" >>, << "^", "=" >>, << "|", "=" >>, << "=", "=" >>,
      << "!", "=" >>, << "<" >>, << ">" >>, << "<", "=" >>, << ">", "=" >>,
      << "-" >>, << "+" >>, << "~" >>, << "!" >>, << "[", "]" >>,
      << "(", ")" >>, << "<", "<" >>, << "*" >>, << "-", ">" >>,
      << "+", "+" >>, << "-", "-" >>, << "=" >>, << "b", "o", "o", "l" >>,
      << "," >>, << "&", "&" >>, << ">", ">" >>, << "n", "e", "w" >>, << >>,
      << "s", "_", "x" >> }

\* A member function named "operator" + token.
OperatorFunction(token) == CppFunction(0, Str.operator \o token)

\* The functions handed to classify_operator: one for each token, names that
\* hold white space around the token, a const operator[] with a parameter,
\* a binary operator- and a function that is no operator.
ClassifyPool ==
    { OperatorFunction(token) : token \in OperatorTokens } \cup
    { OperatorFunction(<< " ", "+", "=" >>),
      OperatorFunction(<< " ", "b", "o", "o", "l" >>),
      OperatorFunction(<< "=", "=", " " >>),
      OperatorFunction(<< "<", " ", "<" >>),
      [ OperatorFunction(<< "[", "]" >>)
            EXCEPT !.type = Nm.int_ref, !.const = TRUE,
                   !.params = << CppParameter(Nm.int, Nm.i, << >>) >> ],
      [ OperatorFunction(<< "-" >>)
            EXCEPT !.type = Nm.int,
                   !.params = << CppParameter(Nm.int, Nm.i, << >>) >> ],
      CppFunction(0, Nm.size) }

\* The operators parse_function may return for a class: += and == (the
\* latter written with a blank), unary -, a const [] with a parameter, (),
\* << and the comma operator.
OperatorPool ==
    { OperatorFunction(<< "+", "=" >>),
      OperatorFunction(<< " ", "=", "=" >>),
      OperatorFunction(<< "-" >>),
      [ OperatorFunction(<< "[", "]" >>)
            EXCEPT !.type = Nm.int_ref, !.const = TRUE,
                   !.params = << CppParameter(Nm.int, Nm.i, << >>) >> ],
      OperatorFunction(<< "(", ")" >>),
      OperatorFunction(<< "<", "<" >>),
      OperatorFunction(<< "," >>) }

Dialects == { "boost", "pybind11" }

VARIABLES
    pc,              \* position of the driver: "parse", "transformed", then
                     \* "emitted" or "classified"
    name,            \* CppClass.name
    parent,          \* cpp_full_name() of CppClass.parent
    template_params, \* CppClass.template_params
    ctors,           \* CppClass.ctors
    dtors,           \* CppClass.dtors
    methods,         \* CppClass.methods
    operators,       \* CppClass.operators
    iterators,       \* CppClass.iterators
    clss_location,   \* CppClass.location
    added,           \* history: the functions passed to add_function, in call order
    call,            \* history: the arguments of the last extract_iterators
                     \* call and the lists it started from
    dialect,         \* the writer that ran: "boost" or "pybind11"
    op_arg,             \* the function handed to classify_operator
    val,             \* what the writer returned
    log,             \* the lines printed, in order
    ns_global,       \* the namespace tree parse_xml_dir builds
    export_files,    \* the dict export_files of generate_files
    files,           \* the output directory: content by path
    argv,            \* sys.argv
    doc,             \* the documentation XML in the input directory
    xml_dir,         \* xml_dir of the driver
    src_dir,         \* src_dir of the driver
    status,          \* "running", or the exit status of the process
    shorten_prefix,  \* the argument of the call of shorten_location_prefix
    write_plan,      \* the file operations of the writer that runs, in order
    write_at         \* the number of file operations done

classVars == << name, parent, template_params, ctors, dtors, methods, operators,
                iterators, clss_location, added, call >>
outVars   == << dialect, op_arg, val, log >>
fileVars  == << ns_global, export_files, files >>
runVars   == << argv, doc, xml_dir, src_dir, status, shorten_prefix, write_plan, write_at >>
vars      == << pc, classVars, outVars, fileVars, runVars >>

\* The class of the state, as the object the writers receive.
self ==
    [ name |-> name, parent |-> parent, template_params |-> template_params,
      ctors |-> ctors, dtors |-> dtors, methods |-> methods,
      operators |-> operators, iterators |-> iterators ]


(***************************************************************************)
(* The namespace tree (CppNamespace) and the compounds the reader adds.    *)
(***************************************************************************)
\* CppNamespace(""): the root namespace, nothing below it.
CppNamespace == [ namespaces |-> { }, classes |-> << >>, functions |-> << >> ]

\* The loop of create_namespace calls in parse_xml_dir for the namespace
\* with the full name full: it and the namespaces above it are there.
CppNamespace_create_namespace(tree, full) ==
    LET parts == Split(full, Str.scope)
    IN  [ tree EXCEPT !.namespaces =
              @ \cup { [ parent |-> Join(Str.scope, SubSeq(parts, 1, i - 1)),
                         name   |-> parts[i] ] : i \in 2..Len(parts) } ]

\* add_class in which the last registration wins.
AddClassLastWins(tree, clss) ==
    [ tree |-> [ tree EXCEPT !.classes =
                     (CppClass_cpp_full_name(clss) :> clss)
                         @@ [ k \in DOMAIN @ \ { CppClass_cpp_full_name(clss) } |-> @[k] ] ],
      log  |-> IF CppClass_cpp_full_name(clss) \in DOMAIN tree.classes
               THEN << << "Namespace",
                          Split(clss.parent, Str.scope)[Len(Split(clss.parent, Str.scope))],
                          "already contains a class named",
                          CppClass_cpp_full_name(clss) >> >>
               ELSE << >> ]

\* CppNamespace.add_class on the namespace clss.parent: the tree after the
\* call and the line it prints.
CppNamespace_add_class(tree, clss) ==
    IF CppClass_cpp_full_name(clss) \in DOMAIN tree.classes
    THEN [ tree |-> tree,
           log  |-> << << "Namespace", Split(clss.parent, Str.scope)[Len(Split(clss.parent, Str.scope))],
                          "already contains a class named",
                          CppClass_cpp_full_name(clss) >> >> ]
    ELSE [ tree |-> [ tree EXCEPT !.classes = (CppClass_cpp_full_name(clss) :> clss) @@ @ ],
           log  |-> << >> ]

\* The function after func.cpp_signature(), which calls cpp_signature of
\* its parameters
CppFunction_after_cpp_signature(func) ==
    [ func EXCEPT !.params = [ i \in 1..Len(@) |-> CppParameter_after_cpp_signature(@[i]) ] ]

\* CppNamespace.add_function on the namespace func.parent.
CppNamespace_add_function(tree, func) ==
    IF CppFunction_cpp_signature(func) \in DOMAIN tree.functions
    THEN [ tree |-> tree,
           log  |-> << << "Namespace", Split(func.parent, Str.scope)[Len(Split(func.parent, Str.scope))],
                          "already contains a function named",
                          CppFunction_cpp_signature(func) >> >> ]
    ELSE [ tree |-> [ tree EXCEPT !.functions =
                          (CppFunction_cpp_signature(func)
                               :> CppFunction_after_cpp_signature(func)) @@ @ ],
           log  |-> << >> ]

\* cpp_full_name() of the namespaces genesis::tree, genesis::tree::deep, other
ns_tree  == ns_genesis \o Str.scope \o Nm.tree
ns_deep  == ns_tree \o Str.scope \o Nm.deep
ns_other == Str.scope \o Nm.other

\* A class as parse_class_file returns it and extract_iterators leaves it,
\* with the namespace parse_xml_dir puts it in.
CppClass(cname, ns, location) ==
    [ name |-> cname, parent |-> ns, template_params |-> None,
      ctors |-> << >>, dtors |-> << >>, methods |-> << >>, operators |-> << >>,
      iterators |-> << >>, location |-> location ]

\* A member function of the class clss.
Member(clss, id, fname) ==
    [ CppFunction(id, fname) EXCEPT !.parent = CppClass_cpp_full_name(clss),
                                    !.location = clss.location ]

\* The classes of the documentation: genesis::tree::Tree with a constructor,
\* two documented methods at() of one signature, a comma operator and an
\* iterator; the class template genesis::tree::Node<class T> and the class
\* genesis::Tree, both located in the file of genesis::tree::Tree;
\* genesis::tree::deep::Leaf; other::Thing.
ClassPool ==
    LET tree  == CppClass(Nm.Tree, ns_tree, Nm.tree_hpp)
        node  == CppClass(Nm.Node, ns_tree, Nm.tree_hpp)
        at    == [ Member(tree, 2, Nm.at) EXCEPT !.type = Nm.int ]
    IN  { [ tree EXCEPT
              !.ctors = << [ Member(tree, 1, Nm.Tree) EXCEPT
                               !.params = << CppParameter(Nm.int, Nm.i, Nm.zero) >> ] >>,
              !.methods = << [ at EXCEPT !.briefdescription = Nm.doc ],
                             [ at EXCEPT !.id = 3, !.detaileddescription = Nm.more ] >>,
              !.operators = << Member(tree, 4, Str.operator \o << "," >>) >>,
              !.iterators = << CppIterator(Str.iter, Str.begin, Str.end) >> ],
          [ node EXCEPT
              !.template_params = Some(<< Nm.T >>),
              !.methods = << [ Member(node, 1, Nm.size) EXCEPT !.type = Nm.int,
                                                              !.const = TRUE ] >> ],
          CppClass(Nm.Tree, ns_genesis, Nm.tree_hpp),
          CppClass(Nm.Leaf, ns_deep, Nm.leaf_hpp),
          CppClass(Nm.Thing, ns_other, Nm.thing_hpp) }

\* The free functions of the documentation: genesis::tree::bar, documented,
\* and the template genesis::tree::conv<class T>, both located at /bar.hpp;
\* genesis::find and genesis::tree::size in the file of the classes;
\* genesis::tree::deep::far.
FunctionPool ==
    LET f == [ CppFunction(0, Nm.bar) EXCEPT !.type = Nm.int ]
    IN  { [ f EXCEPT !.parent = ns_tree, !.location = Nm.bar_hpp,
                     !.briefdescription = Nm.doc, !.detaileddescription = Nm.more ],
          [ f EXCEPT !.name = Nm.conv, !.parent = ns_tree, !.location = Nm.bar_hpp,
                     !.template_params = Some(<< Nm.T >>),
                     !.detaileddescription = Nm.more ],
          [ f EXCEPT !.name = Nm.find, !.parent = ns_genesis, !.location = Nm.tree_hpp,
                     !.type = Nm.int_ref,
                     !.params = << CppParameter(Nm.int, Nm.i, Nm.zero) >> ],
          [ f EXCEPT !.name = Nm.size, !.parent = ns_tree, !.location = Nm.tree_hpp ],
          [ f EXCEPT !.name = Nm.far, !.parent = ns_deep, !.location = Nm.leaf_hpp,
                     !.briefdescription = Nm.doc ] }

\* The output directory before the run: empty, or holding an old tree/tree.cpp.
Disks ==
    { << >>,
      (PathJoin(Nm.src, SplitExtRoot(Nm.tree_hpp) \o << ".", "c", "p", "p" >>) :> Nm.old) }
(***************************************************************************)
(* The documentation XML.  An element is a record of the attributes and    *)
(* children the reader looks at; the text of a child element is a string.  *)
(* A compound of index.xml holds, as file, the root of the file its refid  *)
(* names: a list of compounds.  A memberdef holds, as func, its name,      *)
(* type, params, descriptions and location in the shape of a CppFunction.  *)
(***************************************************************************)
Xml ==
    [ memberdef   |-> << "m", "e", "m", "b", "e", "r", "d", "e", "f" >>,
      enumvalue   |-> << "e", "n", "u", "m", "v", "a", "l", "u", "e" >>,
      function    |-> << "f", "u", "n", "c", "t", "i", "o", "n" >>,
      variable    |-> << "v", "a", "r", "i", "a", "b", "l", "e" >>,
      sectiondef  |-> << "s", "e", "c", "t", "i", "o", "n", "d", "e", "f" >>,
      public_func |-> << "p", "u", "b", "l", "i", "c", "-", "f", "u", "n", "c" >>,
      public_static_func |-> << "p", "u", "b", "l", "i", "c", "-", "s", "t", "a", "t", "i", "c", "-", "f", "u", "n", "c" >>,
      func        |-> << "f", "u", "n", "c" >>,
      class       |-> << "c", "l", "a", "s", "s" >>,
      struct      |-> << "s", "t", "r", "u", "c", "t" >>,
      namespace   |-> << "n", "a", "m", "e", "s", "p", "a", "c", "e" >>,
      file        |-> << "f", "i", "l", "e" >>,
      slash       |-> << "/" >>,
      \* qualified names
      q_Tree      |-> << "g", "e", "n", "e", "s", "i", "s", ":", ":", "t", "r", "e", "e", ":", ":", "T", "r", "e", "e" >>,
      q_Node      |-> << "g", "e", "n", "e", "s", "i", "s", ":", ":", "t", "r", "e", "e", ":", ":", "N", "o", "d", "e" >>,
      q_Util      |-> << "g", "e", "n", "e", "s", "i", "s", ":", ":", "U", "t", "i", "l" >>,
      q_Thing     |-> << "o", "t", "h", "e", "r", ":", ":", "T", "h", "i", "n", "g" >>,
      q_Solo      |-> << "S", "o", "l", "o" >>,
      q_tree      |-> << "g", "e", "n", "e", "s", "i", "s", ":", ":", "t", "r", "e", "e" >>,
      q_genesis   |-> << "g", "e", "n", "e", "s", "i", "s" >>,
      Util        |-> << "U", "t", "i", "l" >>,
      Solo        |-> << "S", "o", "l", "o" >>,
      \* locations
      tree_hpp    |-> << "/", "l", "i", "b", "/", "t", "r", "e", "e", "/", "t", "r", "e", "e", ".", "h", "p", "p" >>,
      node_hpp    |-> << "/", "l", "i", "b", "/", "t", "r", "e", "e", "/", "n", "o", "d", "e", ".", "h", "p", "p" >>,
      util_hpp    |-> << "/", "l", "i", "b", "/", "u", "t", "i", "l", ".", "h", "p", "p" >>,
      x_hpp       |-> << "/", "u", "s", "r", "/", "x", ".", "h", "p", "p" >>,
      thing_hpp   |-> << "i", "n", "c", "/", "t", "h", "i", "n", "g", ".", "h", "p", "p" >>,
      lib         |-> << "/", "l", "i", "b", "/" >>,
      \* command line
      prog        |-> << "p", "y", "_", "b", "i", "n", "d", "e", "r", ".", "p", "y" >>,
      doc_dir     |-> << "d", "o", "c", "/", "x", "m", "l", "/" >>,
      out_dir     |-> << "/", "o", "u", "t", "/" >>,
      extra       |-> << "x" >> ]

\* <memberdef kind="function"> for the function func
MemberDef(func) == [ tag |-> Xml.memberdef, kind |-> Xml.function, func |-> func ]

\* <sectiondef kind=...> with the members
SectionDef(kind, members) == [ tag |-> Xml.sectiondef, kind |-> kind, members |-> members ]

\* <compounddef kind=...> of a class file
ClassDef(kind, compoundname, location, sections) ==
    [ kind |-> kind, compoundname |-> compoundname, template_params |-> None,
      location |-> location, sections |-> sections ]

\* <compound kind=... refid=...><name>...</name> of index.xml
Compound(kind, cname, file) == [ kind |-> kind, name |-> cname, file |-> file ]

\* The compounds of index.xml:
\*   Tree       class genesis::tree::Tree with a documented constructor
\*              Tree(int i) whose defval element is empty, and documented
\*              methods end, begin;
\*   TreeAgain  class genesis::tree::Tree once more, declared in another file;
\*   Node       struct genesis::tree::Node with methods at two locations;
\*   Util       class genesis::Util with a member variable in its function
\*              section, a section that is no function section and an
\*              operator==;
\*   UtilEnum   class genesis::Util with an enumvalue of kind function;
\*   Solo       class Solo, declared outside any namespace;
\*   Thing      class other::Thing, its location without the prefix of the
\*              others, with an undocumented method;
\*   tree       namespace genesis::tree with the documented functions far()
\*              and bar(int i), the defval element of i being empty;
\*   treeAgain  namespace genesis::tree once more, with an undocumented far()
\*              declared in another file;
\*   genesis    namespace genesis with an enumvalue of kind function;
\*   file       a file compound.
Compounds ==
    LET f(id, fname, location) ==
            [ CppFunction(id, fname) EXCEPT !.type = Nm.int, !.location = location ]
        class(q, location, members) ==
            Compound(Xml.class, q,
                     << ClassDef(Xml.class, q, location,
                                 << SectionDef(Xml.public_func, members) >>) >>)
    IN  [ Tree |->
              class(Xml.q_Tree, Xml.tree_hpp,
                    << MemberDef([ f(1, Nm.Tree, Xml.tree_hpp) EXCEPT
                                     !.type = << >>,
                                     !.params = << CppParameter(Nm.int, Nm.i, NoneText) >>,
                                     !.briefdescription = Nm.doc ]),
                       MemberDef([ f(2, Str.end, Xml.tree_hpp) EXCEPT
                                     !.briefdescription = Nm.doc ]),
                       MemberDef([ f(3, Str.begin, Xml.tree_hpp) EXCEPT
                                     !.detaileddescription = Nm.more ]) >>),
          TreeAgain |-> class(Xml.q_Tree, Xml.node_hpp, << >>),
          Node |->
              Compound(Xml.struct, Xml.q_Node,
                       << ClassDef(Xml.struct, Xml.q_Node, Xml.node_hpp,
                                   << SectionDef(Xml.public_func,
                                          << MemberDef(f(1, Nm.size, Xml.node_hpp)),
                                             MemberDef(f(2, Nm.at, Xml.x_hpp)) >>) >>) >>),
          Util |->
              Compound(Xml.class, Xml.q_Util,
                       << ClassDef(Xml.class, Xml.q_Util, Xml.util_hpp,
                                   << SectionDef(Xml.public_func,
                                          << [ MemberDef(f(1, Nm.size, Xml.util_hpp))
                                                 EXCEPT !.kind = Xml.variable ],
                                             MemberDef([ f(2, Nm.opEq, Xml.x_hpp) EXCEPT
                                                 !.briefdescription = Nm.doc ]) >>),
                                      SectionDef(Xml.func,
                                          << MemberDef(f(3, Nm.at, Xml.tree_hpp)) >>) >>) >>),
          UtilEnum |->
              class(Xml.q_Util, Xml.util_hpp,
                    << MemberDef(f(1, Nm.size, Xml.util_hpp)),
                       [ MemberDef(f(2, Nm.at, Xml.util_hpp))
                           EXCEPT !.tag = Xml.enumvalue ] >>),
          Solo  |-> class(Xml.q_Solo, Xml.util_hpp,
                          << MemberDef(f(1, Nm.size, Xml.util_hpp)) >>),
          Thing |-> class(Xml.q_Thing, Xml.thing_hpp,
                          << MemberDef(f(1, Nm.size, Xml.thing_hpp)) >>),
          tree |->
              Compound(Xml.namespace, Xml.q_tree,
                       << [ kind |-> Xml.namespace,
                            sections |->
                                << SectionDef(Xml.func,
                                       << MemberDef([ f(1, Nm.far, Xml.x_hpp) EXCEPT
                                                        !.detaileddescription = Nm.more ]),
                                          MemberDef([ f(2, Nm.bar, Xml.util_hpp) EXCEPT
                                                        !.params =
                                                            << CppParameter(Nm.int, Nm.i,
                                                                            NoneText) >>,
                                                        !.briefdescription = Nm.doc ]) >>) >> ] >>),
          treeAgain |->
              Compound(Xml.namespace, Xml.q_tree,
                       << [ kind |-> Xml.namespace,
                            sections |->
                                << SectionDef(Xml.func,
                                       << MemberDef(f(3, Nm.far, Xml.util_hpp)) >>) >> ] >>),
          genesis |->
              Compound(Xml.namespace, Xml.q_genesis,
                       << [ kind |-> Xml.namespace,
                            sections |->
                                << SectionDef(Xml.func,
                                       << [ MemberDef(f(1, Nm.find, Xml.util_hpp))
                                              EXCEPT !.tag = Xml.enumvalue ] >>) >> ] >>),
          file |-> Compound(Xml.file, Xml.util_hpp, << >>) ]

CompoundPool == { Compounds[k] : k \in DOMAIN Compounds }

\* The command lines: the program name and up to three arguments.
Argvs ==
    { << Xml.prog >>,
      << Xml.prog, Xml.doc_dir >>,
      << Xml.prog, Xml.doc_dir, Xml.out_dir >>,
      << Xml.prog, Xml.doc_dir, Xml.out_dir, Xml.extra >> }
(***************************************************************************)
(* CppClass                                                                *)
(***************************************************************************)
\* add_function with the test for 'operator' placed before the test for the
\* class name.
BucketOperatorFirst(cname, func) ==
    IF StartsWith(func.name, Str.operator) THEN "operators"
    ELSE IF func.name = cname THEN "ctors"
    ELSE IF func.name = Str.tilde \o cname THEN "dtors"
    ELSE "methods"

\* The list add_function appends func to.
Bucket(cname, func) ==
    IF func.name = cname THEN "ctors"
    ELSE IF func.name = Str.tilde \o cname THEN "dtors"
    ELSE IF StartsWith(func.name, Str.operator) THEN "operators"
    ELSE "methods"

\* CppClass.add_function, for a function that is not None
CppClass_add_function(func) ==
    /\ pc = "parse"
    /\ ctors'     = IF Bucket(name, func) = "ctors"     THEN Append(ctors, func)     ELSE ctors
    /\ dtors'     = IF Bucket(name, func) = "dtors"     THEN Append(dtors, func)     ELSE dtors
    /\ operators' = IF Bucket(name, func) = "operators" THEN Append(operators, func) ELSE operators
    /\ methods'   = IF Bucket(name, func) = "methods"   THEN Append(methods, func)   ELSE methods
    /\ added' = Append(added, func)
    /\ UNCHANGED << pc, name, parent, template_params, iterators, clss_location, call,
                    outVars, fileVars, runVars >>

\* [f for f in methods if f.name not in names]
WithoutNames(ms, names) == SelectSeq(ms, LAMBDA f : f.name \notin names)

\* CppClass.add_named_iterator
CppClass_add_named_iterator(its, py_name, begin, end) ==
    Append(its, CppIterator(py_name, begin, end))

\* CppClass.add_iterator, with its default arguments
CppClass_add_iterator(its) == CppClass_add_named_iterator(its, Str.iter, Str.begin, Str.end)

RECURSIVE NamedIteratorsNotOnce(_, _, _, _, _)
\* The loop of extract_iterators without the test "extract each iterator
\* only once".
NamedIteratorsNotOnce(method_names, i, extracted_iters, ms, its) ==
    IF i > Len(method_names) THEN [ methods |-> ms, iterators |-> its ]
    ELSE LET mn         == method_names[i]
             it_name    == Strip(DropFirst(mn, 5), { "_" })
             begin_name == mn
             end_name   == SubPrefix(Str.begin, Str.end, SubPrefix(Str.Begin, Str.End, mn))
         IN  IF ~StartsWith(Lower(mn), Str.begin) \/ mn = Str.begin
             THEN NamedIteratorsNotOnce(method_names, i + 1, extracted_iters, ms, its)
             ELSE IF ~InList(end_name, method_names)
             THEN NamedIteratorsNotOnce(method_names, i + 1, extracted_iters, ms, its)
             ELSE NamedIteratorsNotOnce(method_names, i + 1,
                                 Append(extracted_iters, it_name),
                                 WithoutNames(ms, { begin_name, end_name }),
                                 CppClass_add_named_iterator(its, it_name, begin_name, end_name))

RECURSIVE NamedIterators(_, _, _, _, _)
\* The loop of extract_iterators over method_names, from position i, with the
\* names extracted so far, the method list and the iterator list.
NamedIterators(method_names, i, extracted_iters, ms, its) ==
    IF i > Len(method_names) THEN [ methods |-> ms, iterators |-> its ]
    ELSE LET mn         == method_names[i]
             it_name    == Strip(DropFirst(mn, 5), { "_" })
             begin_name == mn
             end_name   == SubPrefix(Str.begin, Str.end, SubPrefix(Str.Begin, Str.End, mn))
         IN  IF ~StartsWith(Lower(mn), Str.begin) \/ mn = Str.begin
             THEN NamedIterators(method_names, i + 1, extracted_iters, ms, its)
             ELSE IF ~InList(end_name, method_names)
             THEN NamedIterators(method_names, i + 1, extracted_iters, ms, its)
             ELSE IF InList(it_name, extracted_iters)
             THEN NamedIterators(method_names, i + 1, extracted_iters, ms, its)
             ELSE NamedIterators(method_names, i + 1,
                                 Append(extracted_iters, it_name),
                                 WithoutNames(ms, { begin_name, end_name }),
                                 CppClass_add_named_iterator(its, it_name, begin_name, end_name))

\* extract_iterators with "or" for "and" in the test for the default
\* iterator.
ExtractIteratorsEither(ms, its, all_named) ==
    LET method_names == [ i \in 1..Len(ms) |-> ms[i].name ]
        both   == InList(Str.begin, method_names) \/ InList(Str.end, method_names)
        its1   == IF both THEN CppClass_add_iterator(its) ELSE its
        ms1    == IF both THEN WithoutNames(ms, { Str.begin, Str.end }) ELSE ms
    IN  IF ~all_named
        THEN [ methods |-> ms1, iterators |-> its1 ]
        ELSE NamedIterators(method_names, 1, << >>, ms1, its1)

\* extract_iterators without the return for all_named = False.
ExtractIteratorsAlwaysNamed(ms, its, all_named) ==
    LET method_names == [ i \in 1..Len(ms) |-> ms[i].name ]
        both   == InList(Str.begin, method_names) /\ InList(Str.end, method_names)
        its1   == IF both THEN CppClass_add_iterator(its) ELSE its
        ms1    == IF both THEN WithoutNames(ms, { Str.begin, Str.end }) ELSE ms
    IN  NamedIterators(method_names, 1, << >>, ms1, its1)

\* CppClass.extract_iterators: the method list and the iterator list it
\* leaves, for the lists ms and its it finds.
CppClass_extract_iterators(ms, its, all_named) ==
    LET method_names == [ i \in 1..Len(ms) |-> ms[i].name ]
        both   == InList(Str.begin, method_names) /\ InList(Str.end, method_names)
        its1   == IF both THEN CppClass_add_iterator(its) ELSE its
        ms1    == IF both THEN WithoutNames(ms, { Str.begin, Str.end }) ELSE ms
    IN  IF ~all_named
        THEN [ methods |-> ms1, iterators |-> its1 ]
        ELSE NamedIterators(method_names, 1, << >>, ms1, its1)

\* The transform step of the driver: CppNamespace.extract_iterators calls
\* extract_iterators of the class.
ExtractIterators(all_named) ==
    /\ pc = "parse"
    /\ LET r == CppClass_extract_iterators(methods, iterators, all_named)
       IN  /\ methods'   = r.methods
           /\ iterators' = r.iterators
    /\ call' = [ all_named |-> all_named, methods |-> methods, iterators |-> iterators ]
    /\ pc' = "transformed"
    /\ UNCHANGED << name, parent, template_params, ctors, dtors, operators, clss_location,
                    added, outVars, fileVars, runVars >>

\* No extract_iterators call yet.
NoCall == [ all_named |-> FALSE, methods |-> << >>, iterators |-> << >> ]

(***************************************************************************)
(* Helper functions of the writers.                                        *)
(***************************************************************************)
\* CppEscapeString
CppEscapeString(txt) ==
    Replace(Replace(Replace(txt, Txt.backslash, Txt.esc_backslash),
                    Txt.quote, Txt.esc_quote),
            Txt.newline, Txt.esc_newline)

\* The argument ctype of generate_class_methods and generate_class_operators:
\* None, or the class name + "Type" for a class template.
CtypeOf(clss) ==
    IF clss.template_params.is_none THEN None ELSE Some(clss.name \o Txt.Type)

(***************************************************************************)
(* Pybind11Writer: class methods.                                          *)
(***************************************************************************)
\* Pybind11Writer.generate_class_function_body(func, ctype, py_name)
Pybind11Writer_generate_class_function_body(func, ctype_arg, py_name) ==
    LET ctype == IF ctype_arg.is_none THEN func.parent ELSE ctype_arg.list
        arg(param) ==
            Py.arg_sep \o Py.arg \o param.name \o Txt.arg_close
                \o (IF param.value = << >> THEN << >>
                    ELSE Txt.default_open \o param.type \o Txt.default_mid
                             \o param.value \o Str.rparen)
    IN  Py.def \o (IF func.static THEN Py.static ELSE << >>) \o Py.def_open
            \o Txt.name_open \o (IF py_name.is_none THEN func.name ELSE py_name.list)
            \o Txt.name_close
            \o Txt.sig_open \o func.type \o Txt.sig_ret
            \o (IF func.static THEN Txt.star ELSE ctype \o Txt.member_star)
            \o Txt.sig_params
            \o Join(Str.comma, [ i \in 1..Len(func.params) |-> func.params[i].type ])
            \o Txt.sig_close
            \o (IF func.const THEN Txt.sig_const ELSE << >>)
            \o Txt.addr_open \o ctype \o Str.scope \o func.name \o Txt.sig_close
            \o Concat([ i \in 1..Len(func.params) |-> arg(func.params[i]) ])
            \o (IF func.briefdescription # << >>
                THEN Txt.doc_open \o CppEscapeString(CppFunction_cpp_signature(func))
                         \o Txt.doc_close
                ELSE Txt.newline)
            \o Txt.body_close

\* generate_class_methods (pybind11) that writes the blocks in the order of
\* the method list.
Pybind11MethodsUnsorted(clss) ==
    IF Len(clss.methods) = 0 THEN << >>
    ELSE Txt.methods_header
            \o Concat([ i \in 1..Len(clss.methods) |->
                  Pybind11Writer_generate_class_function_body(
                      clss.methods[i], CtypeOf(clss), None) ])

\* Pybind11Writer.generate_class_methods
Pybind11Writer_generate_class_methods(clss) ==
    IF Len(clss.methods) = 0 THEN << >>
    ELSE LET ctype  == CtypeOf(clss)
             m_list == [ i \in 1..Len(clss.methods) |->
                           Pybind11Writer_generate_class_function_body(
                               clss.methods[i], ctype, None) ]
         IN  Txt.methods_header \o Concat(Sorted(Range(m_list)))

(***************************************************************************)
(* BoostPythonWriter: class methods.                                       *)
(***************************************************************************)
\* BoostPythonWriter.generate_class_function_body(func, ctype, py_name)
BoostPythonWriter_generate_class_function_body(func, ctype_arg, py_name) ==
    LET ctype == IF ctype_arg.is_none THEN func.parent ELSE ctype_arg.list
        arg(param) ==
            Bp.arg \o param.name \o Txt.arg_close
                \o (IF param.value = << >> THEN << >>
                    ELSE Txt.default_open \o param.type \o Txt.default_mid
                             \o param.value \o Str.rparen)
        stripped == Strip(func.type, Whitespace)
    IN  Bp.def_open
            \o Txt.name_open \o (IF py_name.is_none THEN func.name ELSE py_name.list)
            \o Txt.name_close
            \o Txt.sig_open \o func.type \o Txt.sig_ret
            \o (IF func.static THEN Txt.star ELSE ctype \o Txt.member_star)
            \o Txt.sig_params
            \o Join(Str.comma, [ i \in 1..Len(func.params) |-> func.params[i].type ])
            \o Txt.sig_close
            \o (IF func.const THEN Txt.sig_const ELSE << >>)
            \o Txt.addr_open \o ctype \o Str.scope \o func.name \o Txt.sig_close
            \o (IF Len(func.params) > 0
                THEN Bp.args_open
                         \o Join(Str.comma, [ i \in 1..Len(func.params) |->
                                              arg(func.params[i]) ])
                         \o Txt.sig_close
                ELSE << >>)
            \o (IF EndsWith(stripped, Txt.ptr) \/ EndsWith(stripped, Txt.ref)
                THEN Bp.return_policy ELSE << >>)
            \o (IF func.briefdescription # << >>
                THEN Txt.doc_open \o CppFunction_cpp_signature(func) \o Txt.doc_close
                ELSE Txt.newline)
            \o Txt.body_close
            \o (IF func.static
                THEN Bp.staticmethod
                         \o (IF py_name.is_none THEN func.name ELSE py_name.list)
                         \o Txt.doc_close
                ELSE << >>)

\* BoostPythonWriter.generate_class_methods
BoostPythonWriter_generate_class_methods(clss) ==
    IF Len(clss.methods) = 0 THEN << >>
    ELSE LET ctype  == CtypeOf(clss)
             m_list == [ i \in 1..Len(clss.methods) |->
                           BoostPythonWriter_generate_class_function_body(
                               clss.methods[i], ctype, None) ]
         IN  Txt.methods_header \o Concat(Sorted(Range(m_list)))

\* generate_class_methods of a dialect
generate_class_methods(d, clss) ==
    IF d = "boost" THEN BoostPythonWriter_generate_class_methods(clss)
    ELSE Pybind11Writer_generate_class_methods(clss)

\* generate_class_function_body of a dialect, as generate_class_methods calls it
generate_class_function_body(d, func, clss) ==
    IF d = "boost"
    THEN BoostPythonWriter_generate_class_function_body(func, CtypeOf(clss), None)
    ELSE Pybind11Writer_generate_class_function_body(func, CtypeOf(clss), None)

(***************************************************************************)
(* classify_operator and generate_class_operators of the two writers.      *)
(***************************************************************************)
\* The symbol lists classify_operator tests, in the order of its tests.
OperatorSymbols ==
    [ inplace     |-> << << "+", "=" >>, << "-", "=" >>, << "*", "=" >>,
                         << "/", "=" >>, << "%", "=" >>, << ">", ">", "=" >>,
                         << "<", "<", "=" >>, << "&", "=" >>, << "^", "=" >>,
                         << "|", "=" >> >>,
      comparison  |-> << << "=", "=" >>, << "!", "=" >>, << "<" >>, << ">" >>,
                         << "<", "=" >>, << ">", "=" >> >>,
      unary       |-> << << "-" >>, << "+" >>, << "~" >>, << "!" >> >>,
      array       |-> << << "[", "]" >> >>,
      access      |-> << << "(", ")" >> >>,
      ostream     |-> << << "<", "<" >> >>,
      dereference |-> << << "*" >>, << "-", ">" >> >>,
      crement     |-> << << "+", "+" >>, << "-", "-" >> >>,
      assignment  |-> << << "=" >> >>,
      conversion  |-> << << "b", "o", "o", "l" >> >> ]

\* classify_operator that takes the text after "operator" as it stands,
\* without strip().
ClassifyOperatorUnstripped(op) ==
    IF ~StartsWith(op.name, Ops.prefix) THEN None
    ELSE With(DropFirst(op.name, Len(Ops.prefix)), LAMBDA symbol :
             IF InList(symbol, OperatorSymbols.inplace)
                 THEN Some(<< symbol, "inplace" >>)
             ELSE IF InList(symbol, OperatorSymbols.comparison)
                 THEN Some(<< symbol, "comparison" >>)
             ELSE IF InList(symbol, OperatorSymbols.unary)
                 THEN Some(<< symbol, "unary" >>)
             ELSE IF InList(symbol, OperatorSymbols.array)
                 THEN Some(<< symbol, "array" >>)
             ELSE IF InList(symbol, OperatorSymbols.access)
                 THEN Some(<< symbol, "access" >>)
             ELSE IF InList(symbol, OperatorSymbols.ostream)
                 THEN Some(<< symbol, "ostream" >>)
             ELSE IF InList(symbol, OperatorSymbols.dereference)
                 THEN Some(<< symbol, "dereference" >>)
             ELSE IF InList(symbol, OperatorSymbols.crement)
                 THEN Some(<< symbol, "crement" >>)
             ELSE IF InList(symbol, OperatorSymbols.assignment)
                 THEN Some(<< symbol, "assignment" >>)
             ELSE IF InList(symbol, OperatorSymbols.conversion)
                 THEN Some(<< symbol, "conversion" >>)
             ELSE None)

\* Pybind11Writer.classify_operator(op): None, or (symbol, category).
Pybind11Writer_classify_operator(op) ==
    IF ~StartsWith(op.name, Ops.prefix) THEN None
    ELSE With(Strip(DropFirst(op.name, Len(Ops.prefix)), Whitespace), LAMBDA symbol :
             IF InList(symbol, OperatorSymbols.inplace)
                 THEN Some(<< symbol, "inplace" >>)
             ELSE IF InList(symbol, OperatorSymbols.comparison)
                 THEN Some(<< symbol, "comparison" >>)
             ELSE IF InList(symbol, OperatorSymbols.unary)
                 THEN Some(<< symbol, "unary" >>)
             ELSE IF InList(symbol, OperatorSymbols.array)
                 THEN Some(<< symbol, "array" >>)
             ELSE IF InList(symbol, OperatorSymbols.access)
                 THEN Some(<< symbol, "access" >>)
             ELSE IF InList(symbol, OperatorSymbols.ostream)
                 THEN Some(<< symbol, "ostream" >>)
             ELSE IF InList(symbol, OperatorSymbols.dereference)
                 THEN Some(<< symbol, "dereference" >>)
             ELSE IF InList(symbol, OperatorSymbols.crement)
                 THEN Some(<< symbol, "crement" >>)
             ELSE IF InList(symbol, OperatorSymbols.assignment)
                 THEN Some(<< symbol, "assignment" >>)
             ELSE IF InList(symbol, OperatorSymbols.conversion)
                 THEN Some(<< symbol, "conversion" >>)
             ELSE None)

\* BoostPythonWriter.classify_operator(op): None, or (symbol, category).
BoostPythonWriter_classify_operator(op) ==
    IF ~StartsWith(op.name, Ops.prefix) THEN None
    ELSE With(Strip(DropFirst(op.name, Len(Ops.prefix)), Whitespace), LAMBDA symbol :
             IF InList(symbol, OperatorSymbols.inplace)
                 THEN Some(<< symbol, "inplace" >>)
             ELSE IF InList(symbol, OperatorSymbols.comparison)
                 THEN Some(<< symbol, "comparison" >>)
             ELSE IF InList(symbol, OperatorSymbols.unary)
                 THEN Some(<< symbol, "unary" >>)
             ELSE IF InList(symbol, OperatorSymbols.array)
                 THEN Some(<< symbol, "array" >>)
             ELSE IF InList(symbol, OperatorSymbols.access)
                 THEN Some(<< symbol, "access" >>)
             ELSE IF InList(symbol, OperatorSymbols.ostream)
                 THEN Some(<< symbol, "ostream" >>)
             ELSE IF InList(symbol, OperatorSymbols.dereference)
                 THEN Some(<< symbol, "dereference" >>)
             ELSE IF InList(symbol, OperatorSymbols.crement)
                 THEN Some(<< symbol, "crement" >>)
             ELSE IF InList(symbol, OperatorSymbols.assignment)
                 THEN Some(<< symbol, "assignment" >>)
             ELSE IF InList(symbol, OperatorSymbols.conversion)
                 THEN Some(<< symbol, "conversion" >>)
             ELSE None)

\* The body of the loop of Pybind11Writer.generate_class_operators for one
\* operator: the text added to val and the lines printed.
Pybind11OperatorStep(clss, operator) ==
    With(Pybind11Writer_classify_operator(operator), LAMBDA op_class :
        LET symbol   == op_class.list[1]
            category == op_class.list[2]
        IN  IF op_class.is_none
                THEN [ val |-> << >>,
                       log |-> << << "Weird. Empty operator in class", clss.name >> >> ]
            ELSE IF category \in { "inplace", "comparison" }
                THEN [ val |-> PyOp.binary_open \o symbol \o PyOp.binary_close,
                       log |-> << >> ]
            ELSE IF category = "unary"
                THEN [ val |-> PyOp.unary_open \o symbol \o PyOp.unary_close,
                       log |-> << >> ]
            ELSE IF category = "array"
                THEN [ val |-> Pybind11Writer_generate_class_function_body(
                                   operator, CtypeOf(clss), Some(PyOp.getitem)),
                       log |-> << >> ]
            ELSE IF category = "access"
                THEN [ val |-> << >>, log |-> << >> ]
            ELSE IF category = "ostream"
                THEN [ val |-> PyOp.str_open \o CppClass_cpp_full_name(clss)
                                   \o PyOp.str_close,
                       log |-> << >> ]
            ELSE IF category \in { "dereference", "crement", "assignment", "conversion" }
                THEN [ val |-> << >>, log |-> << >> ]
            ELSE [ val |-> << >>,
                   log |-> << << "Operator type not handled:", category, operator.name >> >> ])

RECURSIVE Pybind11OperatorsStopAtUnclassified(_, _, _)
\* The loop of generate_class_operators, leaving the loop silently at the
\* first operator that classify_operator does not know.
Pybind11OperatorsStopAtUnclassified(clss, i, acc) ==
    IF i > Len(clss.operators) THEN acc
    ELSE IF Pybind11Writer_classify_operator(clss.operators[i]).is_none THEN acc
    ELSE With(Pybind11OperatorStep(clss, clss.operators[i]), LAMBDA step :
             Pybind11OperatorsStopAtUnclassified(clss, i + 1,
                 [ val |-> acc.val \o step.val, log |-> acc.log \o step.log ]))

RECURSIVE Pybind11OperatorsLoop(_, _, _)
\* The loop of Pybind11Writer.generate_class_operators from operator i on,
\* with the text and the printed lines so far.
Pybind11OperatorsLoop(clss, i, acc) ==
    IF i > Len(clss.operators) THEN acc
    ELSE With(Pybind11OperatorStep(clss, clss.operators[i]), LAMBDA step :
             Pybind11OperatorsLoop(clss, i + 1,
                 [ val |-> acc.val \o step.val, log |-> acc.log \o step.log ]))

\* Pybind11Writer.generate_class_operators(clss): the text returned and the
\* lines printed.
Pybind11Writer_generate_class_operators(clss) ==
    IF Len(clss.operators) = 0 THEN [ val |-> << >>, log |-> << >> ]
    ELSE With(Pybind11OperatorsLoop(clss, 1, [ val |-> << >>, log |-> << >> ]), LAMBDA r :
             [ val |-> IF r.val # << >> THEN PyOp.header \o r.val ELSE r.val,
               log |-> r.log ])

\* The body of the loop of BoostPythonWriter.generate_class_operators for
\* one operator.
BoostOperatorStep(clss, operator) ==
    With(BoostPythonWriter_classify_operator(operator), LAMBDA op_class :
        LET symbol   == op_class.list[1]
            category == op_class.list[2]
        IN  IF op_class.is_none
                THEN [ val |-> << >>,
                       log |-> << << "Weird. Empty operator in class", clss.name >> >> ]
            ELSE IF category \in { "inplace", "comparison" }
                THEN [ val |-> BpOp.binary_open \o symbol \o BpOp.binary_close,
                       log |-> << >> ]
            ELSE IF category = "unary"
                THEN [ val |-> BpOp.unary_open \o symbol \o BpOp.unary_close,
                       log |-> << >> ]
            ELSE IF category = "array"
                THEN [ val |-> BoostPythonWriter_generate_class_function_body(
                                   operator, CtypeOf(clss), Some(BpOp.getitem)),
                       log |-> << >> ]
            ELSE IF category = "access"
                THEN [ val |-> << >>, log |-> << >> ]
            ELSE IF category = "ostream"
                THEN [ val |-> BpOp.str, log |-> << >> ]
            ELSE IF category \in { "dereference", "crement", "assignment", "conversion" }
                THEN [ val |-> << >>, log |-> << >> ]
            ELSE [ val |-> << >>,
                   log |-> << << "Operator type not handled:", category, operator.name >> >> ])

RECURSIVE BoostOperatorsLoop(_, _, _)
\* The loop of BoostPythonWriter.generate_class_operators from operator i on.
BoostOperatorsLoop(clss, i, acc) ==
    IF i > Len(clss.operators) THEN acc
    ELSE With(BoostOperatorStep(clss, clss.operators[i]), LAMBDA step :
             BoostOperatorsLoop(clss, i + 1,
                 [ val |-> acc.val \o step.val, log |-> acc.log \o step.log ]))

\* BoostPythonWriter.generate_class_operators(clss): the text returned and
\* the lines printed.
BoostPythonWriter_generate_class_operators(clss) ==
    IF Len(clss.operators) = 0 THEN [ val |-> << >>, log |-> << >> ]
    ELSE With(BoostOperatorsLoop(clss, 1, [ val |-> << >>, log |-> << >> ]), LAMBDA r :
             [ val |-> IF r.val # << >> THEN BpOp.header \o r.val ELSE r.val,
               log |-> r.log ])

\* The two dialects, by name.
classify_operator(d, op) ==
    IF d = "pybind11" THEN Pybind11Writer_classify_operator(op)
    ELSE BoostPythonWriter_classify_operator(op)

generate_class_operators(d, clss) ==
    IF d = "pybind11" THEN Pybind11Writer_generate_class_operators(clss)
    ELSE BoostPythonWriter_generate_class_operators(clss)

(***************************************************************************)
(* Pybind11Writer: free functions, class header and iterators.             *)
(***************************************************************************)
\* "=(" + param.type + ")(" + param.value + ")", or "" for no default value
Pybind11DefaultValue(param, open, mid, close) ==
    IF param.value = << >> THEN << >>
    ELSE open \o param.type \o mid \o param.value \o close

\* Pybind11Writer.generate_function_body(func), with py_name = ""
Pybind11Writer_generate_function_body(func) ==
    PyL.L81_1
        \o PyL.L82_1 \o func.name \o PyL.L82_3
        \o PyL.L83_1 \o func.type \o PyL.L83_2
        \o Join(PyL.L84_1, [ i \in 1..Len(func.params) |-> func.params[i].type ])
        \o PyL.L89_1
        \o PyL.L90_1 \o CppFunction_cpp_full_name(func) \o PyL.L90_2
        \o Concat([ i \in 1..Len(func.params) |->
               PyL.L94_1
                   \o PyL.L95_1 \o func.params[i].name \o PyL.L95_2
                   \o Pybind11DefaultValue(func.params[i], PyL.L97_1, PyL.L97_2, PyL.L97_3) ])
        \o (IF func.briefdescription # << >>
            THEN PyL.L103_1 \o CppEscapeString(CppFunction_cpp_signature(func)) \o PyL.L103_2
            ELSE PyL.L105_1)
        \o PyL.L106_1

\* A constructor that takes one parameter of type "<class name> &&".
IsMoveConstructor(clss, ctor, suffix) ==
    Len(ctor.params) = 1 /\ ctor.params[1].type = clss.name \o suffix

\* The .def( pybind11::init< ... >() ... ) block of one constructor.
Pybind11ConstructorBlock(ctor) ==
    PyL.L131_1
        \o PyL.L132_1
        \o Join(PyL.L133_1, [ i \in 1..Len(ctor.params) |-> ctor.params[i].type ])
        \o PyL.L134_1
        \o Concat([ i \in 1..Len(ctor.params) |->
               PyL.L136_1
                   \o PyL.L137_1
                   \o (IF ctor.params[i].name # << >> THEN ctor.params[i].name ELSE PyL.L137_3)
                   \o PyL.L137_4
                   \o Pybind11DefaultValue(ctor.params[i], PyL.L139_1, PyL.L139_2, PyL.L139_3) ])
        \o (IF ctor.briefdescription # << >>
            THEN PyL.L142_1 \o CppEscapeString(CppFunction_cpp_signature(ctor)) \o PyL.L142_2
            ELSE PyL.L144_1)
        \o PyL.L145_1

\* Pybind11Writer.generate_class_header(clss)
Pybind11Writer_generate_class_header(clss) ==
    LET ctype   == IF clss.template_params.is_none
                   THEN CppClass_cpp_full_name(clss) ELSE clss.name \o PyL.L119_1
        py_name == IF clss.template_params.is_none
                   THEN PyL.L117_1 \o clss.name \o PyL.L117_2 ELSE PyL.L120_1
    IN  PyL.L122_1 \o ctype \o PyL.L122_2 \o ctype \o PyL.L122_3
            \o PyL.L123_1 \o py_name \o PyL.L123_2
            \o Concat([ i \in 1..Len(clss.ctors) |->
                   IF IsMoveConstructor(clss, clss.ctors[i], PyL.L128_1) THEN << >>
                   ELSE Pybind11ConstructorBlock(clss.ctors[i]) ])

\* Pybind11Writer.generate_class_iterators(clss)
Pybind11Writer_generate_class_iterators(clss) ==
    IF Len(clss.iterators) = 0 THEN << >>
    ELSE PyL.L322_1
            \o Concat([ i \in 1..Len(clss.iterators) |->
                   PyL.L324_1
                       \o PyL.L330_1 \o clss.iterators[i].name \o PyL.L330_2
                       \o PyL.L331_1 \o CppClass_cpp_full_name(clss) \o PyL.L331_2
                       \o PyL.L332_1
                       \o PyL.L333_1 \o clss.iterators[i].begin
                       \o PyL.L333_2 \o clss.iterators[i].end \o PyL.L333_3
                       \o PyL.L334_1
                       \o PyL.L335_1
                       \o PyL.L336_1 ])

(***************************************************************************)
(* BoostPythonWriter: free functions, class header and iterators.          *)
(***************************************************************************)
\* "boost::python::arg(\"" + param.name + "\")" with the default value, if any
BoostArg(param, open, close, dflt_open, dflt_mid, dflt_close) ==
    open \o param.name \o close
        \o (IF param.value = << >> THEN << >>
            ELSE dflt_open \o param.type \o dflt_mid \o param.value \o dflt_close)

\* BoostPythonWriter.generate_function_body(func), with py_name = ""
BoostPythonWriter_generate_function_body(func) ==
    LET stripped == Strip(func.type, Whitespace)
    IN  BpL.L81_1
            \o BpL.L82_1 \o func.name \o BpL.L82_3
            \o BpL.L83_1 \o func.type \o BpL.L83_2
            \o Join(BpL.L84_1, [ i \in 1..Len(func.params) |-> func.params[i].type ])
            \o BpL.L89_1
            \o BpL.L90_1 \o CppFunction_cpp_full_name(func) \o BpL.L90_2
            \o (IF Len(func.params) > 0
                THEN BpL.L92_1
                        \o Join(BpL.L92_2,
                               [ i \in 1..Len(func.params) |->
                                     BoostArg(func.params[i], BpL.L94_1, BpL.L94_2,
                                              BpL.L96_1, BpL.L96_2, BpL.L96_3) ])
                        \o BpL.L99_1
                ELSE << >>)
            \o (IF EndsWith(stripped, BpL.L100_1) \/ EndsWith(stripped, BpL.L100_2)
                THEN BpL.L101_1 ELSE << >>)
            \o (IF func.briefdescription # << >>
                THEN BpL.L104_1 \o CppFunction_cpp_signature(func) \o BpL.L104_2
                ELSE BpL.L106_1)
            \o BpL.L107_1

\* BoostPythonWriter.generate_class_constructor(ctor)
BoostPythonWriter_generate_class_constructor(ctor) ==
    BpL.L116_1
        \o Join(BpL.L117_1,
               [ i \in 1..Len(ctor.params) |->
                     IF ctor.params[i].value = << >> THEN ctor.params[i].type
                     ELSE BpL.L120_1 \o ctor.params[i].type \o BpL.L120_2 ])
        \o BpL.L123_1
        \o (IF Len(ctor.params) > 0 THEN BpL.L124_1 ELSE BpL.L124_2)
        \o Join(BpL.L125_1,
               [ i \in 1..Len(ctor.params) |->
                     BoostArg(ctor.params[i], BpL.L127_1, BpL.L127_2,
                              BpL.L129_1, BpL.L129_2, BpL.L129_3) ])
        \o BpL.L133_1
        \o (IF Len(ctor.params) > 0 THEN BpL.L134_1 ELSE << >>)

\* BoostPythonWriter.generate_class_header(clss)
BoostPythonWriter_generate_class_header(clss) ==
    LET ctor_val == IF Len(clss.ctors) > 0
                    THEN BpL.L140_1
                             \o BoostPythonWriter_generate_class_constructor(clss.ctors[1])
                    ELSE << >>
        ctype    == IF clss.template_params.is_none
                    THEN CppClass_cpp_full_name(clss) ELSE clss.name \o BpL.L148_1
        py_name  == IF clss.template_params.is_none
                    THEN BpL.L146_1 \o clss.name \o BpL.L146_2 ELSE BpL.L149_1
    IN  BpL.L151_1 \o ctype \o BpL.L151_2
            \o BpL.L152_1 \o py_name \o ctor_val \o BpL.L152_2
            \o Concat([ i \in 1..(Len(clss.ctors) - 1) |->
                   IF IsMoveConstructor(clss, clss.ctors[i + 1], BpL.L156_1) THEN << >>
                   ELSE BpL.L159_1
                            \o BoostPythonWriter_generate_class_constructor(clss.ctors[i + 1])
                            \o BpL.L161_1 ])

\* BoostPythonWriter.generate_class_iterators(clss)
BoostPythonWriter_generate_class_iterators(clss) ==
    LET ctype == IF clss.template_params.is_none
                 THEN CppClass_cpp_full_name(clss) ELSE clss.name \o BpL.L335_1
    IN  IF Len(clss.iterators) = 0 THEN << >>
        ELSE BpL.L339_1
                \o Concat([ i \in 1..Len(clss.iterators) |->
                       (IF clss.iterators[i].name = BpL.L341_1 THEN BpL.L342_1 ELSE BpL.L344_1)
                           \o BpL.L345_1 \o clss.iterators[i].name \o BpL.L345_2
                           \o ctype \o BpL.L346_1 \o clss.iterators[i].begin \o BpL.L346_2
                           \o ctype \o BpL.L347_1 \o clss.iterators[i].end
                           \o BpL.L348_1 ])

(***************************************************************************)
(* CppNamespace: the tree below the root namespace.  The tree is kept      *)
(* flat: the namespaces below the root, each with the full name of its     *)
(* parent, the classes by their full name and the free functions by their  *)
(* signature; an entity belongs to the namespace named by its parent.      *)
(***************************************************************************)
\* CppNamespace.cpp_full_name
CppNamespace_cpp_full_name(ns) == ns.parent \o Str.scope \o ns.name

RECURSIVE CppNamespace_get_all_classes(_, _)
\* CppNamespace.get_all_classes of the namespace with the full name full
CppNamespace_get_all_classes(tree, full) ==
    LET own      == Sorted({ k \in DOMAIN tree.classes : tree.classes[k].parent = full })
        children == Sorted({ ns.name : ns \in { n \in tree.namespaces : n.parent = full } })
    IN  [ i \in 1..Len(own) |-> tree.classes[own[i]] ]
            \o Concat([ i \in 1..Len(children) |->
                   CppNamespace_get_all_classes(tree, full \o Str.scope \o children[i]) ])

RECURSIVE CppNamespace_get_all_functions(_, _)
\* CppNamespace.get_all_functions of the namespace with the full name full
CppNamespace_get_all_functions(tree, full) ==
    LET own      == Sorted({ k \in DOMAIN tree.functions : tree.functions[k].parent = full })
        children == Sorted({ ns.name : ns \in { n \in tree.namespaces : n.parent = full } })
    IN  [ i \in 1..Len(own) |-> tree.functions[own[i]] ]
            \o Concat([ i \in 1..Len(children) |->
                   CppNamespace_get_all_functions(tree, full \o Str.scope \o children[i]) ])

(***************************************************************************)
(* The parts of the two writers that differ in their string literals and   *)
(* in the places marked by a test of the dialect d only.                   *)
(***************************************************************************)
Lit(d) == IF d = "pybind11" THEN PyFile ELSE BpFile

generate_function_body(d, func) ==
    IF d = "pybind11" THEN Pybind11Writer_generate_function_body(func)
    ELSE BoostPythonWriter_generate_function_body(func)

generate_class_header(d, clss) ==
    IF d = "pybind11" THEN Pybind11Writer_generate_class_header(clss)
    ELSE BoostPythonWriter_generate_class_header(clss)

generate_class_iterators(d, clss) ==
    IF d = "pybind11" THEN Pybind11Writer_generate_class_iterators(clss)
    ELSE BoostPythonWriter_generate_class_iterators(clss)

\* make_section_header(symbol, title, indent, length)
make_section_header(d, symbol, ttl, indent, length) ==
    Lit(d).nl \o Repeat(Lit(d).blank, indent) \o Lit(d).comment
        \o Repeat(symbol, length - 3) \o Lit(d).nl
        \o Repeat(Lit(d).blank, indent) \o Lit(d).title \o ttl \o Lit(d).nl
        \o Repeat(Lit(d).blank, indent) \o Lit(d).comment
        \o Repeat(symbol, length - 3) \o Lit(d).nl2

\* make_section_header_minor(title), with indent = 4 and length = 70
make_section_header_minor(d, ttl) == make_section_header(d, Lit(d).minor, ttl, 4, 70)

\* generate_class(clss): the text returned and the lines printed.
generate_class(d, clss) ==
    LET header == generate_class_header(d, clss)
    IN  With(generate_class_operators(d, clss), LAMBDA ops :
        [ val |-> make_section_header_minor(d, Lit(d).class_title \o clss.name)
                      \o (IF clss.template_params.is_none THEN header
                          ELSE Lit(d).using_ns \o clss.parent \o Lit(d).using_ns_end
                                   \o Lit(d).using \o clss.name \o Lit(d).type_eq
                                   \o clss.name \o Lit(d).lt
                                   \o Join(Lit(d).comma, clss.template_params.list)
                                   \o Lit(d).gt_end
                                   \o header)
                      \o generate_class_methods(d, clss)
                      \o ops.val
                      \o generate_class_iterators(d, clss)
                      \o Lit(d).class_end,
          log |-> ops.log ])

(***************************************************************************)
(* generate_docstring_file                                                 *)
(***************************************************************************)
\* write_docstring(func), on acc = the list written_signatures, the text
\* written to the file so far and the lines printed so far.
write_docstring(d, func, acc) ==
    IF func.briefdescription # << >> \/ func.detaileddescription # << >>
    THEN LET sig  == CppFunction_cpp_signature(func)
             seen == InList(sig, acc.written_signatures)
         IN  [ written_signatures |->
                   IF seen THEN acc.written_signatures
                   ELSE Append(acc.written_signatures, sig),
               log |->
                   IF seen
                   THEN Append(acc.log, << "Warn: Signature already in docstring file:", sig >>)
                   ELSE acc.log,
               out |->
                   acc.out
                       \o Lit(d).entry_open
                       \o (IF d = "pybind11" THEN CppEscapeString(sig) ELSE sig)
                       \o Lit(d).entry_mid
                       \o (IF func.briefdescription # << >>
                           THEN CppEscapeString(func.briefdescription) ELSE << >>)
                       \o (IF func.briefdescription # << >> /\ func.detaileddescription # << >>
                           THEN Lit(d).entry_par ELSE << >>)
                       \o (IF func.detaileddescription # << >>
                           THEN CppEscapeString(func.detaileddescription) ELSE << >>)
                       \o Lit(d).entry_close ]
    ELSE acc

RECURSIVE WriteDocstrings(_, _, _)
\* write_docstring for the functions of a list, in order
WriteDocstrings(d, funcs, acc) ==
    IF funcs = << >> THEN acc
    ELSE With(write_docstring(d, Head(funcs), acc),
              LAMBDA written : WriteDocstrings(d, Tail(funcs), written))

RECURSIVE WriteClassDocstrings(_, _, _)
\* The loop of generate_docstring_file over the classes.
WriteClassDocstrings(d, classes, acc) ==
    IF classes = << >> THEN acc
    ELSE LET clss == Head(classes)
         IN  With(IF d = "pybind11"
                  THEN [ acc EXCEPT !.out = @ \o PyFile.class_comment \o clss.name
                                              \o PyFile.nl ]
                  ELSE acc,
                  LAMBDA start :
                      With(WriteDocstrings(d, SortedByName(clss.methods), start),
                           LAMBDA done :
                               With([ done EXCEPT !.out = @ \o Lit(d).nl ],
                                    LAMBDA next :
                                        WriteClassDocstrings(d, Tail(classes), next))))

\* generate_docstring_file(namespace, directory) on the disk and the lines
\* printed so far; sorted_functions is the list sorted() makes of the
\* functions, which are objects without an order of their own.
generate_docstring_file(d, tree, directory, disk, lg, sorted_functions) ==
    LET fn == PathJoin(directory, Lit(d).doc_file)
    IN  With([ written_signatures |-> << >>, out |-> Lit(d).doc_header, log |-> lg ],
             LAMBDA start :
        With(WriteClassDocstrings(d, CppNamespace_get_all_classes(tree, << >>), start),
             LAMBDA classes :
        With(IF d = "pybind11"
             THEN [ classes EXCEPT !.out = @ \o PyFile.functions_comment ]
             ELSE classes,
             LAMBDA middle :
        With(WriteDocstrings(d, sorted_functions, middle),
             LAMBDA funcs :
                 [ disk |-> (fn :> (funcs.out \o Lit(d).doc_footer)) @@ disk,
                   log  |-> funcs.log ]))))

(***************************************************************************)
(* write_export_files                                                      *)
(***************************************************************************)
\* ExportFile()
ExportFile ==
    [ scope |-> << >>, using |-> << >>, includes |-> << >>, class_strings |-> << >>,
      function_strings |-> << >>, func_templates |-> << >> ]

\* os.path.splitext(filename)[0].replace("/", "_").replace(".", "_")
FileIdentifier(d, filename) ==
    Replace(Replace(SplitExtRoot(filename), Lit(d).slash, Lit(d).underscore),
            Lit(d).dot, Lit(d).underscore)

\* The text write_export_files writes to the file of exp; class_order and
\* template_order are the orders in which the two dicts are iterated.
ExportFileText(d, filename, exp, class_order, template_order) ==
    Lit(d).file_header
        \o (IF exp.using # << >>
            THEN Lit(d).using_open \o exp.using \o Lit(d).using_close ELSE << >>)
        \o Concat([ i \in 1..Len(class_order) |->
               Lit(d).nl \o exp.class_strings[class_order[i]] ])
        \o (IF Len(exp.function_strings) > 0
            THEN Lit(d).fn_open \o FileIdentifier(d, filename) \o Lit(d).export
                     \o Lit(d).fn_mid
                     \o (IF d = "pybind11" THEN exp.using ELSE exp.scope)
                     \o Lit(d).fn_close
                     \o Concat([ i \in 1..Len(exp.function_strings) |->
                            Lit(d).nl \o exp.function_strings[i] ])
                     \o Lit(d).block_close
            ELSE << >>)
        \o (IF DOMAIN exp.func_templates # { }
            THEN Concat([ i \in 1..Len(template_order) |->
                     LET tmpl_params == template_order[i]
                         identifier  ==
                             FileIdentifier(d, filename) \o Lit(d).underscore
                                 \o Replace(Replace(Replace(Replace(tmpl_params,
                                        Lit(d).word_class, << >>),
                                        Lit(d).word_typename, << >>),
                                        Lit(d).blank, << >>),
                                        Lit(d).comma_char, Lit(d).underscore)
                     IN  Lit(d).tmpl_open \o tmpl_params \o Lit(d).tmpl_close
                             \o Lit(d).tmpl_fn_open \o identifier \o Lit(d).tmpl_fn_close
                             \o Join(Lit(d).nl, exp.func_templates[tmpl_params])
                             \o Lit(d).block_close ])
                     \o Lit(d).nl
            ELSE << >>)

RECURSIVE write_export_files(_, _, _, _, _, _)
\* write_export_files(export_files, directory) on acc = the disk and the
\* lines printed so far; order gives the order in which export_files
\* (order.files) and the dicts of each file are iterated.  The disk is a
\* map from path to content: directories are not kept, a file's directory
\* exists when the file does.
write_export_files(d, exp_files, directory, order, i, acc) ==
    IF i > Len(order.files) THEN acc
    ELSE LET key      == order.files[i]
             filename == IF StartsWith(key, Lit(d).dot) \/ StartsWith(key, Lit(d).slash)
                         THEN Lit(d).unnamed \o key ELSE key
             fn       == PathJoin(directory, filename)
             text     == ExportFileText(d, filename, exp_files[key],
                                        order.classes[key], order.templates[key])
         IN  With([ disk |-> (fn :> text) @@ acc.disk,
                    log  |-> IF fn \in DOMAIN acc.disk
                             THEN Append(acc.log, << "Warn: File already exists:", fn >>)
                             ELSE acc.log ],
                  LAMBDA written :
                      write_export_files(d, exp_files, directory, order, i + 1, written))

(***************************************************************************)
(* generate_files                                                          *)
(***************************************************************************)
\* A variant that makes a new export file for every entity.
WithFreshExportFile(exp_files, key, scope) ==
    (key :> [ ExportFile EXCEPT !.scope = scope ]) @@ exp_files

\* The export file named key, created with the scope when it is not there.
WithExportFile(exp_files, key, scope) ==
    IF key \in DOMAIN exp_files THEN exp_files
    ELSE (key :> [ ExportFile EXCEPT !.scope = scope ]) @@ exp_files

\* The body of the class loop of generate_files for one class, on acc = the
\* dict export_files and the lines printed so far.
BucketClass(d, clss, module_name, acc) ==
    LET parts == Split(CppClass_cpp_full_name(clss), Lit(d).scope_sep)
    IN  IF parts[1] # << >> \/ parts[2] # module_name THEN acc
        ELSE IF Len(parts) > 4 THEN acc
        ELSE LET scope     == Join(Lit(d).dot, SubSeq(parts, 3, Len(parts) - 1))
                 inc_file  == SplitExtRoot(clss.location) \o Lit(d).ext_hpp
                 clss_file == SplitExtRoot(clss.location)
                                  \o (IF clss.template_params.is_none
                                      THEN Lit(d).ext_cpp ELSE Lit(d).ext_hpp)
                 files0    == WithExportFile(acc.export_files, clss_file, scope)
                 exp       == files0[clss_file]
                 gen       == generate_class(d, clss)
                 clss_str  ==
                     IF clss.template_params.is_none
                     THEN Lit(d).cls_open
                              \o (IF d = "pybind11" THEN CppClass_cpp_full_name(clss)
                                  ELSE clss.name \o BpFile.cls_mid \o scope)
                              \o Lit(d).cls_close
                              \o gen.val
                              \o Lit(d).block_close
                     ELSE Lit(d).tmpl_cls_open
                              \o Join(Lit(d).comma, clss.template_params.list)
                              \o Lit(d).tmpl_cls_close
                              \o Lit(d).tmpl_cls_fn
                              \o (IF d = "pybind11" THEN CppClass_cpp_full_name(clss)
                                  ELSE clss.name)
                              \o Lit(d).tmpl_cls_fn_close
                              \o gen.val
                              \o Lit(d).block_close
             IN  [ export_files |->
                       [ files0 EXCEPT ![clss_file] =
                           [ exp EXCEPT
                               !.using = IF clss.template_params.is_none
                                         THEN clss.parent ELSE @,
                               !.includes = Append(@, inc_file),
                               !.class_strings = (clss.name :> clss_str) @@ @ ] ],
                   log |->
                       acc.log
                           \o (IF exp.scope # scope
                               THEN << << "Warn: Multiple scopes in one file:",
                                          exp.scope, "and", scope >> >>
                               ELSE << >>)
                           \o (IF clss.name \in DOMAIN exp.class_strings
                               THEN << << "Warn. Export file", clss_file,
                                          "already has class", clss.name >> >>
                               ELSE << >>)
                           \o (IF clss.template_params.is_none
                                  /\ exp.using \notin { << >>, clss.parent }
                               THEN << << "Warn: using namespace already set to",
                                          exp.using, "instead of", clss.parent >> >>
                               ELSE << >>)
                           \o gen.log ]

\* The body of the function loop of generate_files for one free function.
BucketFunction(d, func, module_name, acc) ==
    LET parts == Split(CppFunction_cpp_full_name(func), Lit(d).scope_sep)
    IN  IF parts[1] # << >> \/ parts[2] # module_name THEN acc
        ELSE IF Len(parts) > 4 THEN acc
        ELSE LET scope     == Join(Lit(d).dot, SubSeq(parts, 3, Len(parts) - 1))
                 inc_file  == SplitExtRoot(func.location) \o Lit(d).ext_hpp
                 func_file == SplitExtRoot(func.location)
                                  \o (IF func.template_params.is_none
                                      THEN Lit(d).ext_cpp ELSE Lit(d).ext_hpp)
                 files0    == WithExportFile(acc.export_files, func_file, scope)
                 exp       == files0[func_file]
                 func_str  == generate_function_body(d, func)
                 tmpl_params == Join(Lit(d).comma, func.template_params.list)
             IN  [ export_files |->
                       [ files0 EXCEPT ![func_file] =
                           [ exp EXCEPT
                               !.using = func.parent,
                               !.includes = Append(@, inc_file),
                               !.function_strings =
                                   IF func.template_params.is_none
                                   THEN Append(@, func_str) ELSE @,
                               !.func_templates =
                                   IF func.template_params.is_none THEN @
                                   ELSE IF tmpl_params \in DOMAIN @
                                   THEN [ @ EXCEPT ![tmpl_params] = Append(@, func_str) ]
                                   ELSE (tmpl_params :> << func_str >>) @@ @ ] ],
                   log |->
                       acc.log
                           \o (IF exp.scope # scope
                               THEN << << "Warn: Multiple scopes in one file:",
                                          exp.scope, "and", scope >> >>
                               ELSE << >>)
                           \o (IF exp.using \notin { << >>, func.parent }
                               THEN << << "Warn: using namespace already set to",
                                          exp.using, "instead of", func.parent >> >>
                               ELSE << >>) ]

RECURSIVE BucketClasses(_, _, _, _)
\* The class loop of generate_files.
BucketClasses(d, classes, module_name, acc) ==
    IF classes = << >> THEN acc
    ELSE With(BucketClass(d, Head(classes), module_name, acc),
              LAMBDA bucketed : BucketClasses(d, Tail(classes), module_name, bucketed))

RECURSIVE BucketFunctions(_, _, _, _)
\* The function loop of generate_files.
BucketFunctions(d, funcs, module_name, acc) ==
    IF funcs = << >> THEN acc
    ELSE With(BucketFunction(d, Head(funcs), module_name, acc),
              LAMBDA bucketed : BucketFunctions(d, Tail(funcs), module_name, bucketed))

\* The dict export_files and the lines printed after the two loops of
\* generate_files(namespace, directory, module_name).
CollectExports(d, tree, module_name, lg) ==
    With([ export_files |-> << >>, log |-> lg ],
         LAMBDA start :
    With(BucketClasses(d, CppNamespace_get_all_classes(tree, << >>), module_name, start),
         LAMBDA classes :
             BucketFunctions(d, CppNamespace_get_all_functions(tree, << >>),
                             module_name, classes)))

\* The orders in which write_export_files may iterate the dict export_files
\* and the dicts class_strings and func_templates of each of its files.
IterationOrders(exp_files) ==
    LET keys == DOMAIN exp_files
        PerFile(field(_)) ==
            { g \in [ keys -> UNION { Orderings(DOMAIN field(exp_files[k])) : k \in keys } ] :
                  \A k \in keys : g[k] \in Orderings(DOMAIN field(exp_files[k])) }
    IN  { [ files |-> fo, classes |-> co, templates |-> to ] :
              fo \in Orderings(keys),
              co \in PerFile(LAMBDA e : e.class_strings),
              to \in PerFile(LAMBDA e : e.func_templates) }

\* generate_files(namespace, directory, module_name): the dict export_files
\* it collects, and the disk and the lines printed when it returns.
generate_files(d, tree, directory, module_name, disk, lg, order, sorted_functions) ==
    With(CollectExports(d, tree, module_name, lg),
         LAMBDA collected :
    With([ disk |-> disk, log |-> collected.log ],
         LAMBDA start :
    With(write_export_files(d, collected.export_files, directory, order, 1, start),
         LAMBDA written :
    With(generate_docstring_file(d, tree, directory, written.disk, written.log,
                                 sorted_functions),
         LAMBDA documented :
             [ export_files |-> collected.export_files,
               disk |-> documented.disk,
               log  |-> documented.log ]))))

(***************************************************************************)
(* DoxygenReader.  A function that may raise returns the field raised; the *)
(* lines it printed before are in log.                                     *)
(***************************************************************************)
\* param.value as p.find("defval").text gives it.
DefaultValueAsRead(text) == text

\* param.value after parse_function: the text of defval, "" for None.
DefaultValue(text) == IF text = NoneText THEN << >> ELSE text

\* DoxygenReader.parse_function(member): the function, or None, and the
\* line printed.
DoxygenReader_parse_function(member) ==
    IF member.tag # Xml.memberdef
    THEN [ func |-> None, log |-> << << "Invalid xml tag:", member.tag >> >> ]
    ELSE IF member.kind # Xml.function
    THEN [ func |-> None, log |-> << << "Invalid member kind:", member.kind >> >> ]
    ELSE [ func |-> Some([ member.func EXCEPT
                             !.params = [ i \in 1..Len(member.func.params) |->
                                            [ member.func.params[i] EXCEPT
                                                !.value = DefaultValue(@) ] ] ]),
           log  |-> << >> ]

\* The members of the sections of kinds that the loops over section and
\* member reach, each with the kind of its section.
MembersOf(compound, kinds) ==
    Concat([ j \in 1..Len(compound.sections) |->
               IF compound.sections[j].tag = Xml.sectiondef
                  /\ compound.sections[j].kind \in kinds
               THEN [ i \in 1..Len(compound.sections[j].members) |->
                        [ section |-> compound.sections[j].kind,
                          member  |-> compound.sections[j].members[i] ] ]
               ELSE << >> ])

\* The loops over section and member of parse_class_file and
\* parse_namespace_file: the results of parse_function for the members of
\* kind function, in order, and the lines printed.  In parse_class_file
\* "func.parent = clss" raises for the result None: at is the position of
\* the first such result, or 0, and the loops end there.
ParseMembers(compound, kinds, in_class) ==
    With(MembersOf(compound, kinds), LAMBDA members :
    With([ i \in 1..Len(members) |->
             IF members[i].member.kind # Xml.function
             THEN [ func |-> None, skipped |-> TRUE,
                    log  |-> << << "Weird. Member in section", members[i].section,
                                   "that is not a function." >> >> ]
             ELSE [ func |-> DoxygenReader_parse_function(members[i].member).func,
                    skipped |-> FALSE,
                    log  |-> DoxygenReader_parse_function(members[i].member).log ] ],
         LAMBDA parsed :
    With({ i \in 1..Len(parsed) : in_class /\ ~parsed[i].skipped /\ parsed[i].func.is_none },
         LAMBDA none :
    With(IF none = { } THEN 0 ELSE CHOOSE i \in none : \A j \in none : i <= j,
         LAMBDA at :
    With(IF at = 0 THEN parsed ELSE SubSeq(parsed, 1, at),
         LAMBDA done :
        [ at    |-> at,
          funcs |-> [ i \in 1..Len(SelectSeq(done, LAMBDA p : ~p.skipped)) |->
                        SelectSeq(done, LAMBDA p : ~p.skipped)[i].func ],
          log   |-> Concat([ i \in 1..Len(done) |-> done[i].log ]) ])))))

\* The body of the loop of parse_class_file for one compound of kind class
\* or struct: the class, whether an exception was raised, and the lines
\* printed.  pop is the order in which the set locations hands out its
\* elements.
ParseClassDef(compound, pop) ==
    With(Split(compound.compoundname, Str.scope), LAMBDA rsplit :
        IF Len(rsplit) < 2
        THEN [ raised |-> TRUE, clss |-> CppClass(<< >>, << >>, << >>), log |-> << >> ]
        ELSE
    With(ParseMembers(compound, { Xml.public_func, Xml.public_static_func }, TRUE),
         LAMBDA members :
    With([ i \in 1..(IF members.at = 0 THEN Len(members.funcs) ELSE Len(members.funcs) - 1)
             |-> members.funcs[i].list ],
         LAMBDA funcs :
    With({ funcs[i].location : i \in 1..Len(funcs) }, LAMBDA locations :
        [ raised |-> members.at # 0,
          clss   |->
              [ CppClass(rsplit[Len(rsplit)], << >>,
                         IF locations = { } THEN compound.location
                         ELSE pop[CHOOSE i \in 1..Len(pop) :
                                      /\ pop[i] \in locations
                                      /\ \A j \in 1..(i - 1) : pop[j] \notin locations])
                  EXCEPT
                    !.template_params = compound.template_params,
                    !.ctors     = SelectSeq(funcs, LAMBDA f : Bucket(rsplit[Len(rsplit)], f) = "ctors"),
                    !.dtors     = SelectSeq(funcs, LAMBDA f : Bucket(rsplit[Len(rsplit)], f) = "dtors"),
                    !.operators = SelectSeq(funcs, LAMBDA f : Bucket(rsplit[Len(rsplit)], f) = "operators"),
                    !.methods   = SelectSeq(funcs, LAMBDA f : Bucket(rsplit[Len(rsplit)], f) = "methods") ],
          log    |->
              members.log
                  \o (IF members.at = 0 /\ Cardinality(locations) > 1
                      THEN << << "Weird. Multiple locations for class",
                                 rsplit[Len(rsplit)], ":", locations >> >>
                      ELSE << >>) ]))))

\* DoxygenReader.parse_class_file(filename), for the root file of the file:
\* the classes returned, whether an exception was raised, the lines printed.
DoxygenReader_parse_class_file(file, pop) ==
    With(SelectSeq(file, LAMBDA compound : compound.kind \in { Xml.class, Xml.struct }),
         LAMBDA compounds :
    With([ k \in 1..Len(compounds) |-> ParseClassDef(compounds[k], pop) ],
         LAMBDA parsed :
    With({ k \in 1..Len(parsed) : parsed[k].raised }, LAMBDA raised :
    With(IF raised = { } THEN Len(parsed) ELSE CHOOSE k \in raised : \A j \in raised : k <= j,
         LAMBDA last :
        [ raised  |-> raised # { },
          classes |-> IF raised # { } THEN << >>
                      ELSE SortedByName([ k \in 1..Len(parsed) |-> parsed[k].clss ]),
          log     |-> Concat([ k \in 1..last |-> parsed[k].log ]) ]))))

\* DoxygenReader.parse_namespace_file(filename): sorted() raises when
\* parse_function returned None for a member.
DoxygenReader_parse_namespace_file(file) ==
    With(SelectSeq(file, LAMBDA compound : compound.kind = Xml.namespace),
         LAMBDA compounds :
    With([ k \in 1..Len(compounds) |-> ParseMembers(compounds[k], { Xml.func }, FALSE) ],
         LAMBDA parsed :
    With(Concat([ k \in 1..Len(parsed) |-> parsed[k].funcs ]), LAMBDA functions :
        [ raised    |-> \E i \in 1..Len(functions) : functions[i].is_none,
          functions |-> IF \E i \in 1..Len(functions) : functions[i].is_none THEN << >>
                        ELSE SortedByName([ i \in 1..Len(functions) |-> functions[i].list ]),
          log       |-> Concat([ k \in 1..Len(parsed) |-> parsed[k].log ]) ])))

\* clss.parent = ns_local alone: the member functions keep the parent the
\* reader found them with.
WithParentOfClassOnly(clss, full) == [ clss EXCEPT !.parent = full ]

\* clss.parent = ns_local, for the namespace with the full name full: the
\* member functions of the class, whose parent is the class, get their full
\* name with it.
WithParent(clss, full) ==
    With(full \o Str.scope \o clss.name, LAMBDA cpp_full_name :
        [ clss EXCEPT
            !.parent    = full,
            !.ctors     = [ i \in 1..Len(@) |-> [ @[i] EXCEPT !.parent = cpp_full_name ] ],
            !.dtors     = [ i \in 1..Len(@) |-> [ @[i] EXCEPT !.parent = cpp_full_name ] ],
            !.methods   = [ i \in 1..Len(@) |-> [ @[i] EXCEPT !.parent = cpp_full_name ] ],
            !.operators = [ i \in 1..Len(@) |-> [ @[i] EXCEPT !.parent = cpp_full_name ] ] ])

RECURSIVE AddClasses(_, _, _, _)
\* "for clss in parse_class_file(xml_file)" of parse_xml_dir, from class i
\* on, on acc = the tree and the lines printed.
AddClasses(classes, i, full, acc) ==
    IF i > Len(classes) THEN acc
    ELSE With(CppNamespace_add_class(acc.tree, WithParent(classes[i], full)),
              LAMBDA added_class :
                  AddClasses(classes, i + 1, full,
                             [ acc EXCEPT !.tree = added_class.tree,
                                          !.log  = @ \o added_class.log ]))

RECURSIVE AddFunctions(_, _, _, _)
\* "for func in parse_namespace_file(xml_file)" of parse_xml_dir
AddFunctions(functions, i, full, acc) ==
    IF i > Len(functions) THEN acc
    ELSE With(CppNamespace_add_function(acc.tree, [ functions[i] EXCEPT !.parent = full ]),
              LAMBDA added_function :
                  AddFunctions(functions, i + 1, full,
                               [ acc EXCEPT !.tree = added_function.tree,
                                            !.log  = @ \o added_function.log ]))

\* The body of the loop of parse_xml_dir for one compound of index.xml, on
\* acc = the tree, the lines printed and whether an exception was raised.
ParseCompound(compound, pop, acc) ==
    IF compound.kind \notin { Xml.class, Xml.struct, Xml.namespace } THEN acc
    ELSE
    With(Split(compound.name, Str.scope), LAMBDA elem_full_name :
    With(IF compound.kind = Xml.namespace THEN elem_full_name
         ELSE SubSeq(elem_full_name, 1, Len(elem_full_name) - 1),
         LAMBDA elem_ns_list :
    With(Concat([ i \in 1..Len(elem_ns_list) |-> Str.scope \o elem_ns_list[i] ]),
         LAMBDA full :
    With([ acc EXCEPT !.tree = CppNamespace_create_namespace(@, full) ],
         LAMBDA moved :
        IF compound.kind = Xml.namespace
        THEN With(DoxygenReader_parse_namespace_file(compound.file), LAMBDA parsed :
                 IF parsed.raised
                 THEN [ moved EXCEPT !.log = @ \o parsed.log, !.raised = TRUE ]
                 ELSE AddFunctions(parsed.functions, 1, full,
                                   [ moved EXCEPT !.log = @ \o parsed.log ]))
        ELSE With(DoxygenReader_parse_class_file(compound.file, pop), LAMBDA parsed :
                 IF parsed.raised
                 THEN [ moved EXCEPT !.log = @ \o parsed.log, !.raised = TRUE ]
                 ELSE AddClasses(parsed.classes, 1, full,
                                 [ moved EXCEPT !.log = @ \o parsed.log ]))))))

RECURSIVE ParseCompounds(_, _, _, _)
\* The loop of parse_xml_dir over the compounds of index.xml, from compound i.
ParseCompounds(index, i, pop, acc) ==
    IF i > Len(index) \/ acc.raised THEN acc
    ELSE With(ParseCompound(index[i], pop, acc),
              LAMBDA parsed : ParseCompounds(index, i + 1, pop, parsed))

\* DoxygenReader.parse_xml_dir(directory), for the root index of index.xml
\* in the directory: the tree, the lines printed after lg, and whether an
\* exception ended the call.
DoxygenReader_parse_xml_dir(index, pop, lg) ==
    ParseCompounds(index, 1, pop, [ tree |-> CppNamespace, log |-> lg, raised |-> FALSE ])
(***************************************************************************)
(* The transforms of the tree: extract_iterators and                       *)
(* shorten_location_prefix of CppNamespace.  Where the program iterates a  *)
(* dict, the model takes the keys in sorted order: the order decides the   *)
(* order of the lines printed and nothing else.                            *)
(***************************************************************************)
\* CppNamespace.extract_iterators(named), on the root
CppNamespace_extract_iterators(tree, named) ==
    [ tree EXCEPT
        !.classes =
            [ k \in DOMAIN @ |->
                With(CppClass_extract_iterators(@[k].methods, @[k].iterators, named),
                     LAMBDA extracted :
                         [ tree.classes[k] EXCEPT !.methods   = extracted.methods,
                                                  !.iterators = extracted.iterators ]) ] ]

\* The namespace with the full name ns is the namespace full or below it.
InNamespace(ns, full) == ns = full \/ StartsWith(ns, full \o Str.scope)

\* os.path.commonprefix(list), for the set of the strings of the list
CommonPrefix(strs) ==
    IF strs = { } THEN << >>
    ELSE With(CHOOSE s \in strs : TRUE, LAMBDA any :
             SubSeq(any, 1,
                    CHOOSE n \in 0..Len(any) :
                        /\ \A s \in strs : Len(s) >= n /\ SubSeq(s, 1, n) = SubSeq(any, 1, n)
                        /\ \A m \in (n + 1)..Len(any) :
                               \E s \in strs : Len(s) < m \/ SubSeq(s, 1, m) # SubSeq(any, 1, m)))

\* CppNamespace.get_file_locations of the namespace full: the locations as a
\* set, and the lines printed.
CppNamespace_get_file_locations(tree, full) ==
    With(Sorted({ k \in DOMAIN tree.classes : InNamespace(tree.classes[k].parent, full) }),
         LAMBDA keys :
        [ locations |-> { tree.classes[keys[i]].location : i \in 1..Len(keys) } \ { << >> },
          log |-> Concat([ i \in 1..Len(keys) |->
                             IF tree.classes[keys[i]].location = << >>
                             THEN << << "Warn: Class without location:",
                                        tree.classes[keys[i]].name >> >>
                             ELSE << >> ]) ])

\* One of the four loops of CppClass.shorten_location_prefix, or the loop
\* over the functions of CppNamespace.shorten_location_prefix: the functions
\* after it and the lines printed.  The program prints the function object
\* or the key; the model prints the name.
ShortenFunctions(funcs, prefix) ==
    [ funcs |-> [ i \in 1..Len(funcs) |->
                    IF StartsWith(funcs[i].location, prefix)
                    THEN [ funcs[i] EXCEPT !.location = DropFirst(@, Len(prefix)) ]
                    ELSE funcs[i] ],
      log   |-> Concat([ i \in 1..Len(funcs) |->
                    IF StartsWith(funcs[i].location, prefix) THEN << >>
                    ELSE << << "Location of function", funcs[i].name,
                               "does not start with prefix", prefix >> >> ]) ]

\* CppClass.shorten_location_prefix(prefix): the class and the lines printed
CppClass_shorten_location_prefix(clss, prefix) ==
    IF prefix = << >> THEN [ clss |-> clss, log |-> << >> ]
    ELSE [ clss |-> [ clss EXCEPT
                        !.ctors     = ShortenFunctions(@, prefix).funcs,
                        !.dtors     = ShortenFunctions(@, prefix).funcs,
                        !.methods   = ShortenFunctions(@, prefix).funcs,
                        !.operators = ShortenFunctions(@, prefix).funcs ],
           log  |-> ShortenFunctions(clss.ctors, prefix).log
                        \o ShortenFunctions(clss.dtors, prefix).log
                        \o ShortenFunctions(clss.methods, prefix).log
                        \o ShortenFunctions(clss.operators, prefix).log ]

\* The loop over the classes of CppNamespace.shorten_location_prefix, for
\* one class: "continue" leaves out the call for the members of the class.
ShortenClass(clss, prefix) ==
    IF ~StartsWith(clss.location, prefix)
    THEN [ clss |-> clss,
           log  |-> << << "Location of class", CppClass_cpp_full_name(clss),
                          "does not start with prefix", prefix >> >> ]
    ELSE CppClass_shorten_location_prefix(
             [ clss EXCEPT !.location = DropFirst(@, Len(prefix)) ], prefix)

RECURSIVE CppNamespace_shorten_location_prefix(_, _, _, _)
RECURSIVE ShortenNamespaces(_, _, _, _, _)
\* "for ns in self.namespaces" of shorten_location_prefix, from child i on
ShortenNamespaces(children, i, full, prefix, acc) ==
    IF i > Len(children) THEN acc
    ELSE With(CppNamespace_shorten_location_prefix(
                  acc.tree, full \o Str.scope \o children[i], prefix, acc.log),
              LAMBDA shortened : ShortenNamespaces(children, i + 1, full, prefix, shortened))

\* CppNamespace.shorten_location_prefix(prefix) of the namespace with the
\* full name full: the tree and the lines printed after lg.
CppNamespace_shorten_location_prefix(tree, full, prefix_arg, lg) ==
    With(IF prefix_arg = << >> THEN CppNamespace_get_file_locations(tree, full)
         ELSE [ locations |-> { }, log |-> << >> ],
         LAMBDA found :
    With(IF prefix_arg = << >> THEN CommonPrefix(found.locations) ELSE prefix_arg,
         LAMBDA prefix :
    With(Sorted({ k \in DOMAIN tree.classes : tree.classes[k].parent = full }),
         LAMBDA classes :
    With(Sorted({ k \in DOMAIN tree.functions : tree.functions[k].parent = full }),
         LAMBDA functions :
        ShortenNamespaces(
            Sorted({ ns.name : ns \in { n \in tree.namespaces : n.parent = full } }),
            1, full, prefix,
            [ tree |->
                  [ tree EXCEPT
                      !.classes =
                          [ k \in DOMAIN @ |->
                              IF @[k].parent = full
                              THEN ShortenClass(@[k], prefix).clss ELSE @[k] ],
                      !.functions =
                          [ k \in DOMAIN @ |->
                              IF @[k].parent = full
                              THEN ShortenFunctions(<< @[k] >>, prefix).funcs[1]
                              ELSE @[k] ] ],
              log |->
                  lg \o found.log
                     \o Concat([ i \in 1..Len(classes) |->
                                   ShortenClass(tree.classes[classes[i]], prefix).log ])
                     \o Concat([ i \in 1..Len(functions) |->
                                   ShortenFunctions(<< tree.functions[functions[i]] >>,
                                                    prefix).log ]) ])))))
(***************************************************************************)
(* The effect of the writers on the tree: they call cpp_signature of       *)
(* functions, which assigns to the value of the parameters.                *)
(***************************************************************************)
\* The writer of dialect d calls cpp_signature of the function of the
\* bucket: generate_docstring_file for a method or a free function with a
\* brief or detailed description; generate_function_body and
\* generate_class_function_body for a free function, a method or an
\* operator[] with a brief description; generate_class_header of pybind11
\* for a constructor with a brief description that it renders.  For the
\* operators and constructors of a class that generate_files does not
\* render this is an upper bound.
TakesSignature(d, bucket, clss, func) ==
    IF bucket \in { "functions", "methods" }
    THEN func.briefdescription # << >> \/ func.detaileddescription # << >>
    ELSE IF bucket = "operators"
    THEN /\ func.briefdescription # << >>
         /\ ~classify_operator(d, func).is_none
         /\ classify_operator(d, func).list[2] = "array"
    ELSE IF bucket = "ctors"
    THEN /\ d = "pybind11"
         /\ func.briefdescription # << >>
         /\ ~IsMoveConstructor(clss, func, << " ", "&", "&" >>)
    ELSE FALSE

\* The functions of a bucket after generate_files of dialect d.
BucketAfterEmitter(d, bucket, clss, funcs) ==
    [ i \in 1..Len(funcs) |->
        IF TakesSignature(d, bucket, clss, funcs[i])
        THEN CppFunction_after_cpp_signature(funcs[i]) ELSE funcs[i] ]

\* The tree after generate_files of dialect d.
TreeAfterEmitter(d, tree) ==
    [ tree EXCEPT
        !.classes =
            [ k \in DOMAIN @ |->
                [ @[k] EXCEPT
                    !.ctors     = BucketAfterEmitter(d, "ctors", tree.classes[k], @),
                    !.methods   = BucketAfterEmitter(d, "methods", tree.classes[k], @),
                    !.operators = BucketAfterEmitter(d, "operators", tree.classes[k], @) ] ],
        !.functions =
            [ k \in DOMAIN @ |->
                BucketAfterEmitter(d, "functions", None, << @[k] >>)[1] ] ]
(***************************************************************************)
(* The steps of the driver (py_binder.py) on one class.                    *)
(***************************************************************************)
\* The writer of dialect d renders the methods section of the class.
GenerateClassMethods(d) ==
    /\ pc = "transformed"
    /\ dialect' = d
    /\ val' = generate_class_methods(d, self)
    /\ pc' = "emitted"
    /\ UNCHANGED << classVars, op_arg, log, fileVars, runVars >>

\* The writer of dialect d renders the operators section of the class.
GenerateClassOperators(d) ==
    /\ pc = "transformed"
    /\ dialect' = d
    /\ val' = generate_class_operators(d, self).val
    /\ log' = log \o generate_class_operators(d, self).log
    /\ pc' = "emitted"
    /\ UNCHANGED << classVars, op_arg, fileVars, runVars >>

\* classify_operator of dialect d is called with the function op.
ClassifyOperator(d, op) ==
    /\ pc = "transformed"
    /\ dialect' = d
    /\ op_arg' = op
    /\ val' = classify_operator(d, op)
    /\ pc' = "classified"
    /\ UNCHANGED << classVars, log, fileVars, runVars >>

\* parse_class_file hands a member function to the class.
ParseMember ==
    /\ Len(added) < MaxFuncs
    /\ \E fname \in MemberNames(name) :
          CppClass_add_function(
              [ CppFunction(Len(added) + 1, fname)
                    EXCEPT !.parent = CppClass_cpp_full_name(self) ])

\* parse_class_file hands a method of MethodPool to the class.
ParseMethod ==
    /\ Len(added) < MaxMethods
    /\ \E f \in MethodPool :
          CppClass_add_function(
              [ f EXCEPT !.id = Len(added) + 1,
                         !.parent = CppClass_cpp_full_name(self) ])

\* parse_class_file hands an operator of OperatorPool to the class.
ParseOperator ==
    /\ Len(added) < MaxOps
    /\ \E f \in OperatorPool :
          CppClass_add_function(
              [ f EXCEPT !.id = Len(added) + 1,
                         !.parent = CppClass_cpp_full_name(self) ])

\* parse_xml_dir processes the compound of a class of ClassPool.
ParseClassCompound ==
    /\ pc = "parse"
    /\ Cardinality(DOMAIN ns_global.classes) + Cardinality(DOMAIN ns_global.functions)
           + Len(log) < MaxEntities
    /\ \E clss \in ClassPool :
          \E added_class \in
                  { CppNamespace_add_class(
                        CppNamespace_create_namespace(ns_global, clss.parent), clss) } :
              /\ ns_global' = added_class.tree
              /\ log' = log \o added_class.log
    /\ UNCHANGED << pc, classVars, dialect, op_arg, val, export_files, files, runVars >>

\* parse_xml_dir processes a namespace compound with a function of FunctionPool.
ParseNamespaceCompound ==
    /\ pc = "parse"
    /\ Cardinality(DOMAIN ns_global.classes) + Cardinality(DOMAIN ns_global.functions)
           + Len(log) < MaxEntities
    /\ \E func \in FunctionPool :
          \E added_function \in
                  { CppNamespace_add_function(
                        CppNamespace_create_namespace(ns_global, func.parent), func) } :
              /\ ns_global' = added_function.tree
              /\ log' = log \o added_function.log
    /\ UNCHANGED << pc, classVars, dialect, op_arg, val, export_files, files, runVars >>

\* generate_files(ns_global, src_dir, "genesis") of the writer of dialect d.
GenerateFiles(d) ==
    /\ pc \in { "parse", "shortened" }
    /\ \E order \in IterationOrders(
                         CollectExports(d, ns_global, Nm.genesis, log).export_files),
          sorted_functions \in
              Orderings(Range(CppNamespace_get_all_functions(ns_global, << >>))) :
          \E done \in { generate_files(d, ns_global, src_dir, Nm.genesis, files, log,
                                        order, sorted_functions) } :
              /\ export_files' = done.export_files
              /\ files' = done.disk
              /\ log' = done.log
    /\ ns_global' = TreeAfterEmitter(d, ns_global)
    /\ dialect' = d
    /\ pc' = "written"
    /\ UNCHANGED << classVars, op_arg, val, runVars >>

\* CppClass(name), registered in namespace genesis; nothing written yet.
InitClass(names, tparams, disks) ==
    /\ pc = "parse"
    /\ name \in names
    /\ parent = ns_genesis
    /\ template_params \in tparams
    /\ ctors = << >>
    /\ dtors = << >>
    /\ methods = << >>
    /\ operators = << >>
    /\ iterators = << >>
    /\ clss_location = Nm.tree_hpp
    /\ added = << >>
    /\ call = NoCall
    /\ dialect = "none"
    /\ op_arg = None
    /\ val = << >>
    /\ log = << >>
    /\ ns_global = CppNamespace
    /\ export_files = << >>
    /\ files \in disks
    /\ argv = << >>
    /\ doc = << >>
    /\ xml_dir = Nm.xml
    /\ src_dir = Nm.src
    /\ status = "running"
    /\ shorten_prefix = << >>
    /\ write_plan = << >>
    /\ write_at = 0

(***************************************************************************)
(* Spec: a class is filled by add_function, then extract_iterators runs.   *)
(***************************************************************************)
Init == InitClass(ClassNames, { None }, { << >> })

Next ==
    \/ ParseMember
    \/ \E all_named \in BOOLEAN : ExtractIterators(all_named)

Spec == Init /\ [][Next]_vars

(***************************************************************************)
(* SpecMethods: a class or class template is filled with methods, the      *)
(* transform runs and one writer renders the methods section.              *)
(***************************************************************************)
InitMethods == InitClass({ Nm.Tree }, { None, Some(<< Nm.T >>) }, { << >> })

NextMethods ==
    \/ ParseMethod
    \/ \E all_named \in BOOLEAN : ExtractIterators(all_named)
    \/ \E d \in Dialects : GenerateClassMethods(d)

SpecMethods == InitMethods /\ [][NextMethods]_vars

(***************************************************************************)
(* SpecOps: a class or class template is filled with operators, the        *)
(* transform runs, and one writer renders the operators section or         *)
(* classifies a function.                                                  *)
(***************************************************************************)
InitOps == InitClass({ Nm.Tree }, { None, Some(<< Nm.T >>) }, { << >> })

NextOps ==
    \/ ParseOperator
    \/ \E all_named \in BOOLEAN : ExtractIterators(all_named)
    \/ \E d \in Dialects : GenerateClassOperators(d)
    \/ \E d \in Dialects, op \in ClassifyPool : ClassifyOperator(d, op)

SpecOps == InitOps /\ [][NextOps]_vars


(***************************************************************************)
(* SpecFiles: the reader builds the namespace tree from compounds of the   *)
(* documentation, then one writer generates the files.                     *)
(***************************************************************************)
InitFiles == InitClass({ Nm.Tree }, { None }, Disks)

NextFiles ==
    \/ ParseClassCompound
    \/ ParseNamespaceCompound
    \/ \E d \in Dialects : GenerateFiles(d)

SpecFiles == InitFiles /\ [][NextFiles]_vars

(***************************************************************************)
(* The main program (py_binder.py) on a documentation directory.           *)
(***************************************************************************)
\* The contents of index.xml: up to MaxCompounds compounds of CompoundPool.
Docs == UNION { [ 1..n -> CompoundPool ] : n \in 0..MaxCompounds }

\* The locations of the member functions in the documentation.
MemberLocations(index) ==
    UNION { { m.member.func.location :
                  m \in Range(MembersOf(compound.file[1],
                                        { Xml.public_func, Xml.public_static_func })) } :
            compound \in { c \in Range(index) : c.kind \in { Xml.class, Xml.struct } } }

\* "Parse command line arguments" and the user information lines.
ParseArguments ==
    /\ pc = "start"
    /\ xml_dir' = IF Len(argv) >= 2 THEN Strip(argv[2], { "/" }) ELSE xml_dir
    /\ src_dir' = IF Len(argv) = 3 THEN Strip(argv[3], { "/" }) ELSE src_dir
    /\ IF Len(argv) > 3
       THEN /\ log' = log \o << << "Usage:", argv[1],
                                  "[input_xml_dir=\"./xml\"] [output_src_dir=\"./src\"]" >> >>
            /\ status' = "0"
            /\ pc' = "exited"
       ELSE /\ log' = log \o << << "Using input  xml dir:", xml_dir' >>,
                                << "Using output src dir:", src_dir' >>,
                                << >> >>
            /\ status' = "running"
            /\ pc' = "args"
    /\ UNCHANGED << classVars, dialect, op_arg, val, fileVars, argv, doc, shorten_prefix,
                    write_plan, write_at >>

\* ns_global = DoxygenReader.parse_xml_dir (xml_dir); an exception ends the
\* program with the exit status 1.
ParseXmlDir ==
    /\ pc = "args"
    /\ \E parsed \in { DoxygenReader_parse_xml_dir(doc, pop, log) :
                           pop \in Orderings(MemberLocations(doc)) } :
          /\ log' = parsed.log
          /\ IF parsed.raised
             THEN /\ status' = "1"
                  /\ pc' = "exited"
                  /\ UNCHANGED ns_global
             ELSE /\ ns_global' = parsed.tree
                  /\ pc' = "parsed"
                  /\ UNCHANGED status
    /\ UNCHANGED << classVars, dialect, op_arg, val, export_files, files,
                    argv, doc, xml_dir, src_dir, shorten_prefix, write_plan, write_at >>

\* ns_global.extract_iterators(True)
ExtractAllIterators ==
    /\ pc = "parsed"
    /\ ns_global' = CppNamespace_extract_iterators(ns_global, TRUE)
    /\ pc' = "extracted"
    /\ UNCHANGED << classVars, outVars, export_files, files, runVars >>

\* ns_global.shorten_location_prefix(p) on the tree after the transform;
\* the main program calls it without an argument, that is with "".
ShortenLocationPrefix(p) ==
    /\ pc = "extracted"
    /\ shorten_prefix' = p
    /\ \E shortened \in
              { CppNamespace_shorten_location_prefix(ns_global, << >>, p, log) } :
          /\ ns_global' = shortened.tree
          /\ log' = shortened.log
    /\ pc' = "shortened"
    /\ UNCHANGED << classVars, dialect, op_arg, val, export_files, files,
                    argv, doc, xml_dir, src_dir, status, write_plan, write_at >>

\* print "Finished.", and the end of the program.
Finish ==
    /\ pc = "written"
    /\ status = "running"
    /\ log' = log \o << << "Finished." >> >>
    /\ status' = "0"
    /\ pc' = "exited"
    /\ UNCHANGED << classVars, dialect, op_arg, val, fileVars, argv, doc, xml_dir, src_dir,
                    shorten_prefix, write_plan, write_at >>

\* The state when the interpreter starts the program on a command line of
\* Argvs, with a documentation of Docs in the input directory and an empty
\* output directory.
InitMain ==
    /\ pc = "start"
    /\ name = Nm.Tree
    /\ parent = ns_genesis
    /\ template_params = None
    /\ ctors = << >>
    /\ dtors = << >>
    /\ methods = << >>
    /\ operators = << >>
    /\ iterators = << >>
    /\ clss_location = Nm.tree_hpp
    /\ added = << >>
    /\ call = NoCall
    /\ dialect = "none"
    /\ op_arg = None
    /\ val = << >>
    /\ log = << >>
    /\ ns_global = CppNamespace
    /\ export_files = << >>
    /\ files = << >>
    /\ argv \in Argvs
    /\ doc \in Docs
    /\ xml_dir = Nm.xml
    /\ src_dir = Nm.src
    /\ status = "running"
    /\ shorten_prefix = << >>
    /\ write_plan = << >>
    /\ write_at = 0

(***************************************************************************)
(* SpecMain: the main program, from the command line to the exit.          *)
(***************************************************************************)
NextMain ==
    \/ ParseArguments
    \/ ParseXmlDir
    \/ ExtractAllIterators
    \/ ShortenLocationPrefix(<< >>)
    \/ GenerateFiles("boost")
    \/ Finish

SpecMain == InitMain /\ [][NextMain]_vars

(***************************************************************************)
(* SpecPipeline: the passes of the program called as a library: the        *)
(* reader, the transforms, shorten_location_prefix without a prefix or     *)
(* with the prefix of the library sources, and either writer.              *)
(***************************************************************************)
Prefixes == { << >>, Xml.lib }

NextPipeline ==
    \/ ParseArguments
    \/ ParseXmlDir
    \/ ExtractAllIterators
    \/ \E p \in Prefixes : ShortenLocationPrefix(p)
    \/ \E d \in Dialects : GenerateFiles(d)

SpecPipeline == InitMain /\ [][NextPipeline]_vars

(***************************************************************************)
(* SpecHeader: a class or class template is filled with constructors, the  *)
(* transform runs and one writer renders the class header.                 *)
(***************************************************************************)
\* The constructors parse_function may return for class Tree: Tree(), a
\* documented Tree(int i) and the move constructor Tree(Tree && other).
CtorPool ==
    { CppFunction(0, Nm.Tree),
      [ CppFunction(0, Nm.Tree) EXCEPT
          !.params = << CppParameter(Nm.int, Nm.i, << >>) >>,
          !.briefdescription = Nm.doc ],
      [ CppFunction(0, Nm.Tree) EXCEPT
          !.params = << CppParameter(Nm.Tree \o << " ", "&", "&" >>, Nm.other, << >>) >> ] }

\* parse_class_file hands a constructor of CtorPool to the class.
ParseConstructor ==
    /\ Len(added) < MaxCtors
    /\ \E f \in CtorPool :
          CppClass_add_function(
              [ f EXCEPT !.id = Len(added) + 1,
                         !.parent = CppClass_cpp_full_name(self) ])

\* The writer of dialect d renders the header of the class.
GenerateClassHeader(d) ==
    /\ pc = "transformed"
    /\ dialect' = d
    /\ val' = generate_class_header(d, self)
    /\ pc' = "emitted"
    /\ UNCHANGED << classVars, op_arg, log, fileVars, runVars >>

InitHeader == InitClass({ Nm.Tree }, { None, Some(<< Nm.T >>) }, { << >> })

NextHeader ==
    \/ ParseConstructor
    \/ \E all_named \in BOOLEAN : ExtractIterators(all_named)
    \/ \E d \in Dialects : GenerateClassHeader(d)

SpecHeader == InitHeader /\ [][NextHeader]_vars

(***************************************************************************)
(* SpecAgain: a class is filled by add_function, then extract_iterators    *)
(* runs, and runs once more on the class it has left.                      *)
(***************************************************************************)
\* The same call of extract_iterators once more, right after the first;
\* call keeps the lists this call started from.
ExtractIteratorsAgain ==
    /\ pc = "transformed"
    /\ LET r == CppClass_extract_iterators(methods, iterators, call.all_named)
       IN  /\ methods'   = r.methods
           /\ iterators' = r.iterators
    /\ call' = [ call EXCEPT !.methods = methods, !.iterators = iterators ]
    /\ pc' = "transformed again"
    /\ UNCHANGED << name, parent, template_params, ctors, dtors, operators, clss_location,
                    added, outVars, fileVars, runVars >>

NextAgain ==
    \/ ParseMember
    \/ \E all_named \in BOOLEAN : ExtractIterators(all_named)
    \/ ExtractIteratorsAgain

SpecAgain == Init /\ [][NextAgain]_vars

(***************************************************************************)
(* SpecSignatures: add_function registers free functions that differ in    *)
(* single fields, under their signatures.                                  *)
(***************************************************************************)
\* Free functions as the reader hands them to add_function: int bar(int i)
\* of namespace genesis::tree, and functions that differ from it in the
\* owner, the name, the type or the number of the parameters, the const
\* qualifier, the name or the default value of the parameter, the return
\* type, the static flag, the documentation, and in two of these.
SignaturePool ==
    LET bar == [ CppFunction(0, Nm.bar) EXCEPT
                   !.type = Nm.int, !.parent = ns_tree,
                   !.params = << CppParameter(Nm.int, Nm.i, << >>) >> ]
    IN  { bar,
          [ bar EXCEPT !.parent = ns_genesis ],
          [ bar EXCEPT !.name = Nm.far ],
          [ bar EXCEPT !.params = << CppParameter(Nm.int_ref, Nm.i, << >>) >> ],
          [ bar EXCEPT !.params = << >> ],
          [ bar EXCEPT !.const = TRUE ],
          [ bar EXCEPT !.params = << CppParameter(Nm.int, << "j" >>, << >>) >> ],
          [ bar EXCEPT !.params = << CppParameter(Nm.int, Nm.i, Nm.zero) >> ],
          [ bar EXCEPT !.type = Nm.int_ref ],
          [ bar EXCEPT !.static = TRUE ],
          [ bar EXCEPT !.briefdescription = Nm.doc ],
          [ bar EXCEPT !.static = TRUE, !.const = TRUE ],
          [ bar EXCEPT !.name = Nm.far, !.params = << CppParameter(Nm.int, Nm.i, Nm.zero) >> ] }

\* parse_xml_dir hands a function of SignaturePool to add_function of the
\* namespace that owns it.
AddFunction ==
    /\ pc = "parse"
    /\ Len(added) < MaxSignatures
    /\ \E func \in SignaturePool :
          \E added_function \in
                  { CppNamespace_add_function(
                        CppNamespace_create_namespace(ns_global, func.parent),
                        [ func EXCEPT !.id = Len(added) + 1 ]) } :
              /\ ns_global' = added_function.tree
              /\ log' = log \o added_function.log
              /\ added' = Append(added, [ func EXCEPT !.id = Len(added) + 1 ])
    /\ UNCHANGED << pc, name, parent, template_params, ctors, dtors, methods, operators,
                    iterators, clss_location, call, dialect, op_arg, val, export_files,
                    files, runVars >>

NextSignatures == AddFunction

SpecSignatures == Init /\ [][NextSignatures]_vars

(***************************************************************************)
(* SpecWrite: the writer followed one file operation at a time: open(fn,   *)
(* 'w'), the f.write calls and f.close() of write_export_files and         *)
(* generate_docstring_file, on the trees of SpecFiles.  The run may stop   *)
(* after any of them.                                                      *)
(***************************************************************************)
\* The texts write_export_files passes to f.write for one file, in order:
\* the intro and the includes, the using line, one block per class, and
\* the free functions and function templates.
ExportFileChunks(d, filename, exp, class_order, template_order) ==
    LET intro   == << Lit(d).file_header >>
        using   == IF exp.using # << >>
                   THEN << Lit(d).using_open \o exp.using \o Lit(d).using_close >>
                   ELSE << >>
        classes == [ i \in 1..Len(class_order) |->
                       Lit(d).nl \o exp.class_strings[class_order[i]] ]
        text    == ExportFileText(d, filename, exp, class_order, template_order)
        rest    == SubSeq(text, Len(Concat(intro \o using \o classes)) + 1, Len(text))
    IN  intro \o using \o classes \o (IF rest # << >> THEN << rest >> ELSE << >>)

\* f = open(fn, 'w'), f.write(text) and f.close(); lines are the lines
\* printed along with a write, warn says whether the file is looked for
\* before it is opened.
FileOpen(fn, warn) == [ op |-> "open", path |-> fn, text |-> << >>, lines |-> << >>, warn |-> warn ]
FileWrite(fn, text, lines) ==
    [ op |-> "write", path |-> fn, text |-> text, lines |-> lines, warn |-> FALSE ]
FileClose(fn) == [ op |-> "close", path |-> fn, text |-> << >>, lines |-> << >>, warn |-> FALSE ]

RECURSIVE ExportFileOperations(_, _, _, _, _)
\* The file operations of write_export_files(export_files, directory), from
\* the i-th file of the iteration on.
ExportFileOperations(d, exp_files, directory, order, i) ==
    IF i > Len(order.files) THEN << >>
    ELSE LET key      == order.files[i]
             filename == IF StartsWith(key, Lit(d).dot) \/ StartsWith(key, Lit(d).slash)
                         THEN Lit(d).unnamed \o key ELSE key
             fn       == PathJoin(directory, filename)
             chunks   == ExportFileChunks(d, filename, exp_files[key],
                                          order.classes[key], order.templates[key])
         IN  << FileOpen(fn, TRUE) >>
                 \o [ k \in 1..Len(chunks) |-> FileWrite(fn, chunks[k], << >>) ]
                 \o << FileClose(fn) >>
                 \o ExportFileOperations(d, exp_files, directory, order, i + 1)

\* The file operations of generate_docstring_file(namespace, directory):
\* the head of the file, the entries of the table with the lines printed
\* for them, and the accessor.
DocstringFileOperations(d, tree, directory, sorted_functions) ==
    LET fn == PathJoin(directory, Lit(d).doc_file)
    IN  With(generate_docstring_file(d, tree, directory, << >>, << >>, sorted_functions),
             LAMBDA documented :
                 LET text    == documented.disk[fn]
                     entries == SubSeq(text, Len(Lit(d).doc_header) + 1,
                                       Len(text) - Len(Lit(d).doc_footer))
                 IN  << FileOpen(fn, FALSE),
                        FileWrite(fn, Lit(d).doc_header, << >>),
                        FileWrite(fn, entries, documented.log),
                        FileWrite(fn, Lit(d).doc_footer, << >>),
                        FileClose(fn) >>)

\* The file operations of generate_files after its two loops.
FileOperations(d, tree, exp_files, directory, order, sorted_functions) ==
    ExportFileOperations(d, exp_files, directory, order, 1)
        \o DocstringFileOperations(d, tree, directory, sorted_functions)

\* The text passed to f.write since the file of operation i was opened.
WrittenAt(plan, i) ==
    LET opened == CHOOSE k \in 1..i :
                      /\ plan[k].op = "open"
                      /\ \A j \in (k + 1)..i : plan[j].op # "open"
    IN  Concat([ j \in 1..(i - opened) |-> plan[opened + j].text ])

\* The two loops of generate_files(ns_global, src_dir, "genesis") of the
\* writer of dialect d: export_files is collected, no file is touched yet.
CollectFiles(d) ==
    /\ pc = "parse"
    /\ \E collected \in { CollectExports(d, ns_global, Nm.genesis, log) } :
          /\ export_files' = collected.export_files
          /\ log' = collected.log
          /\ \E order \in IterationOrders(collected.export_files),
                sorted_functions \in
                    Orderings(Range(CppNamespace_get_all_functions(ns_global, << >>))) :
                 write_plan' = FileOperations(d, ns_global, collected.export_files,
                                              src_dir, order, sorted_functions)
    /\ write_at' = 0
    /\ dialect' = d
    /\ pc' = "writing"
    /\ UNCHANGED << classVars, ns_global, op_arg, val, files, argv, doc, xml_dir, src_dir,
                    status, shorten_prefix >>

\* print "Warn: File already exists:", fn and f = open(fn, 'w'): the file
\* is created or truncated.
OpenFile ==
    /\ pc = "writing"
    /\ write_at < Len(write_plan)
    /\ LET next == write_plan[write_at + 1]
       IN  /\ next.op = "open"
           /\ log' = IF next.warn /\ next.path \in DOMAIN files
                     THEN Append(log, << "Warn: File already exists:", next.path >>)
                     ELSE log
           /\ files' = (next.path :> << >>) @@ files
    /\ write_at' = write_at + 1
    /\ UNCHANGED << pc, classVars, ns_global, dialect, op_arg, val, export_files, write_plan,
                    argv, doc, xml_dir, src_dir, status, shorten_prefix >>

\* f.write(text): the text joins the buffer of the file object, which is
\* written out when the buffer decides, at the latest by f.close().
WriteFile ==
    /\ pc = "writing"
    /\ write_at < Len(write_plan)
    /\ LET next == write_plan[write_at + 1]
       IN  /\ next.op = "write"
           /\ log' = log \o next.lines
           /\ \/ UNCHANGED files
              \/ files' = [ files EXCEPT ![next.path] = WrittenAt(write_plan, write_at + 1) ]
    /\ write_at' = write_at + 1
    /\ UNCHANGED << pc, classVars, ns_global, dialect, op_arg, val, export_files, write_plan,
                    argv, doc, xml_dir, src_dir, status, shorten_prefix >>

\* f.close(): the buffer is written out; after the last file generate_files
\* returns.
CloseFile ==
    /\ pc = "writing"
    /\ write_at < Len(write_plan)
    /\ LET next == write_plan[write_at + 1]
       IN  /\ next.op = "close"
           /\ files' = [ files EXCEPT ![next.path] = WrittenAt(write_plan, write_at + 1) ]
    /\ write_at' = write_at + 1
    /\ IF write_at + 1 = Len(write_plan)
       THEN /\ pc' = "written"
            /\ ns_global' = TreeAfterEmitter(dialect, ns_global)
       ELSE UNCHANGED << pc, ns_global >>
    /\ UNCHANGED << classVars, dialect, op_arg, val, export_files, log, write_plan,
                    argv, doc, xml_dir, src_dir, status, shorten_prefix >>

NextWrite ==
    \/ ParseClassCompound
    \/ ParseNamespaceCompound
    \/ \E d \in Dialects : CollectFiles(d)
    \/ OpenFile
    \/ WriteFile
    \/ CloseFile

SpecWrite == InitFiles /\ [][NextWrite]_vars
(***************************************************************************)
(* Properties of CppClass (cpp_entities.py), checked under Spec.           *)
(***************************************************************************)
\* The names of the functions of a list.
Names(fs) == { fs[i].name : i \in 1..Len(fs) }

\* The methods the last extract_iterators call started from.
MethodsBefore == call.methods
NamesBefore == [ i \in 1..Len(call.methods) |-> call.methods[i].name ]

\* The role of an added function by the naming rule, in its precedence.
RoleOf(f) ==
    CASE f.name = name -> "ctors"
      [] f.name # name /\ f.name = << "~" >> \o name -> "dtors"
      [] f.name # name /\ f.name # << "~" >> \o name
            /\ Len(f.name) >= 8 /\ SubSeq(f.name, 1, 8) = Str.operator -> "operators"
      [] OTHER -> "methods"

\* C1: after any sequence of add_function calls every added function is in
\* exactly one of the buckets ctors, dtors, operators, methods, the one its
\* name selects (class name, then '~' + class name, then the prefix
\* 'operator', else method); each bucket holds its functions in insertion
\* order, none lost and none twice.
C1_BucketsPartitionAdded ==
    /\ ctors     = SelectSeq(added, LAMBDA f : RoleOf(f) = "ctors")
    /\ dtors     = SelectSeq(added, LAMBDA f : RoleOf(f) = "dtors")
    /\ operators = SelectSeq(added, LAMBDA f : RoleOf(f) = "operators")
    /\ pc = "parse" => methods = SelectSeq(added, LAMBDA f : RoleOf(f) = "methods")
    /\ pc = "parse" =>
          \A i \in 1..Len(added) :
              Cardinality({ b \in { "c", "d", "o", "m" } :
                              InList(added[i], CASE b = "c" -> ctors
                                                 [] b = "d" -> dtors
                                                 [] b = "o" -> operators
                                                 [] b = "m" -> methods) }) = 1

\* C1 witness: a class whose name starts with 'operator' has received a
\* constructor, a destructor, an operator and a method.
C1_Witness ==
    /\ pc = "parse"
    /\ name = Nm.operators
    /\ ctors # << >> /\ dtors # << >> /\ operators # << >> /\ methods # << >>

IsDefaultName(f) == f.name \in { Str.begin, Str.end }

\* C2: if the method list held a 'begin' and an 'end' before extract_iterators
\* (either mode), then afterwards no method is named 'begin' or 'end' and the
\* iterator list holds exactly one default iterator ('__iter__', 'begin',
\* 'end'); otherwise no default iterator exists and the methods named 'begin'
\* or 'end' are all still in the list.
C2_DefaultIterator ==
    pc = "transformed" =>
        LET defaults == SelectSeq(iterators, LAMBDA it : it.name = Str.iter)
        IN  IF Str.begin \in Names(MethodsBefore) /\ Str.end \in Names(MethodsBefore)
            THEN /\ SelectSeq(methods, IsDefaultName) = << >>
                 /\ defaults = << [ name |-> Str.iter, begin |-> Str.begin, end |-> Str.end ] >>
            ELSE /\ defaults = << >>
                 /\ SelectSeq(methods, IsDefaultName) = SelectSeq(MethodsBefore, IsDefaultName)

\* C2 witness: extraction has run on a class with two overloads of 'begin'
\* and an 'end'.
C2_Witness ==
    /\ pc = "transformed"
    /\ Len(SelectSeq(MethodsBefore, LAMBDA f : f.name = Str.begin)) = 2
    /\ Str.end \in Names(MethodsBefore)
    /\ Len(iterators) = 1

\* The suffix of a begin... name and the iterator name made of it.
SuffixOf(mn) == SubSeq(mn, 6, Len(mn))
Trimmed(sfx) == Strip(sfx, { "_" })

\* The end method that pairs with a begin method: 'end' + suffix for
\* 'begin' + suffix, 'End' + suffix for 'Begin' + suffix; a name with any
\* other capitalisation is paired with itself.
PartnerOf(mn) ==
    IF SubSeq(mn, 1, 5) = Str.begin THEN Str.end \o SuffixOf(mn)
    ELSE IF SubSeq(mn, 1, 5) = Str.Begin THEN Str.End \o SuffixOf(mn)
    ELSE mn

\* Position i of the method names holds a name that named extraction takes
\* for the iterator name nm.
TakenFor(i, nm) ==
    LET mn == NamesBefore[i]
    IN  /\ Len(mn) >= 5
        /\ Lower(SubSeq(mn, 1, 5)) = Str.begin
        /\ mn # Str.begin
        /\ Trimmed(SuffixOf(mn)) = nm
        /\ InList(PartnerOf(mn), NamesBefore)

IteratorNamesDistinct ==
    \A i, j \in 1..Len(iterators) : iterators[i].name = iterators[j].name => i = j

C4_UnpairedBeginUntouched ==
    (pc = "transformed" /\ call.all_named) =>
        \A i \in 1..Len(NamesBefore) :
            LET mn == NamesBefore[i]
            IN  (/\ Len(mn) >= 5 /\ Lower(SubSeq(mn, 1, 5)) = Str.begin /\ mn # Str.begin
                 /\ ~\E j \in 1..Len(NamesBefore) :
                        Lower(NamesBefore[j]) = Str.end \o Lower(SuffixOf(mn)))
                => /\ \A k \in 1..Len(iterators) : iterators[k].begin # mn
                   /\ SelectSeq(methods, LAMBDA f : f.name = mn)
                        = SelectSeq(MethodsBefore, LAMBDA f : f.name = mn)

(***************************************************************************)
(* Properties of generate_class_methods, checked under SpecMethods.        *)
(***************************************************************************)
\* The positions of txt at which the text b starts.
Occurrences(b, txt) ==
    { i \in 1..(Len(txt) + 1 - Len(b)) : \A k \in 1..Len(b) : txt[i + k - 1] = b[k] }

RECURSIVE TotalLen(_)
\* The sum of the lengths of the texts of a set.
TotalLen(S) ==
    IF S = { } THEN 0
    ELSE LET b == CHOOSE x \in S : TRUE IN Len(b) + TotalLen(S \ { b })

\* The block the writer that ran renders for a method of the class.
BlockOf(f) == generate_class_function_body(dialect, f, self)
Blocks == { BlockOf(methods[i]) : i \in 1..Len(methods) }

\* Two functions that differ in their parameter lists and in nothing else
\* (but their identity).
DifferOnlyInParams(f, g) ==
    /\ f.params # g.params
    /\ [ f EXCEPT !.params = << >>, !.id = 0 ] = [ g EXCEPT !.params = << >>, !.id = 0 ]

\* C5: the methods section a writer renders holds each distinct rendered
\* method block exactly once and nothing else but its heading, the blocks
\* stand in ascending lexicographic order of their text, and every
\* permutation of the method list gives the same section; two methods that
\* differ only in their parameter list render to different blocks (so both
\* are present), and functions that render to the same text share one block.
C5_MethodsSection ==
    pc = "emitted" =>
        IF methods = << >> THEN val = << >>
        ELSE /\ \A b \in Blocks : Cardinality(Occurrences(b, val)) = 1
             /\ Len(val) = Len(Txt.methods_header) + TotalLen(Blocks)
             /\ SubSeq(val, 1, Len(Txt.methods_header)) = Txt.methods_header
             /\ \A a, b \in Blocks :
                   StrLess(a, b) =>
                       \A i \in Occurrences(a, val), j \in Occurrences(b, val) : i < j
             /\ \A p \in Permutations(1..Len(methods)) :
                   generate_class_methods(dialect,
                       [ self EXCEPT !.methods = [ i \in 1..Len(methods) |-> methods[p[i]] ] ])
                     = val
             /\ \A i, j \in 1..Len(methods) :
                   DifferOnlyInParams(methods[i], methods[j])
                       => BlockOf(methods[i]) # BlockOf(methods[j])

\* C5 witness: a section was rendered for three methods, listed in an order
\* that is not the order of their blocks: two that differ only in their
\* parameter list and two distinct functions with the same block.
C5_Witness ==
    /\ pc = "emitted"
    /\ Len(methods) = 3
    /\ StrLess(BlockOf(methods[2]), BlockOf(methods[1]))
    /\ \E i, j \in 1..3 : DifferOnlyInParams(methods[i], methods[j])
    /\ \E i, j \in 1..3 :
          /\ methods[i].detaileddescription # methods[j].detaileddescription
          /\ BlockOf(methods[i]) = BlockOf(methods[j])
    /\ Cardinality(Blocks) = 2

(***************************************************************************)
(* Properties of classify_operator and generate_class_operators, checked   *)
(* under SpecOps.                                                          *)
(***************************************************************************)
Categories ==
    { "inplace", "comparison", "unary", "array", "access", "ostream",
      "dereference", "crement", "assignment", "conversion" }

\* A result of classify_operator that is the unclassified marker, and one
\* that is a symbol with exactly one of the ten categories.
IsUnclassified(r) == r = None
IsClassified(r) ==
    /\ ~r.is_none
    /\ Len(r.list) = 2
    /\ r.list[2] \in Categories

\* The operators of the class that the writer that ran does not classify,
\* and the others.
Unclassified == SelectSeq(operators, LAMBDA o : IsUnclassified(classify_operator(dialect, o)))
Classifiable == SelectSeq(operators, LAMBDA o : ~IsUnclassified(classify_operator(dialect, o)))

\* The line generate_class_operators prints for an operator it cannot
\* classify.
UnclassifiedDiagnostic == << "Weird. Empty operator in class", name >>

\* C9: classify_operator answers every function name with exactly one of
\* the ten categories or with the unclassified marker; and
\* generate_class_operators prints one diagnostic for every unclassified
\* operator of the class, renders nothing for it, and renders the other
\* operators of the class as if the unclassified ones were not there.
C9_UnclassifiedReported ==
    /\ pc = "classified" => (IsUnclassified(val) \/ IsClassified(val))
                            /\ ~(IsUnclassified(val) /\ IsClassified(val))
    /\ pc = "emitted" =>
          /\ log = [ i \in 1..Len(Unclassified) |-> UnclassifiedDiagnostic ]
          /\ val = generate_class_operators(dialect,
                       [ self EXCEPT !.operators = Classifiable ]).val
          /\ \A i \in 1..Len(operators) :
                LET r == classify_operator(dialect, operators[i])
                IN  IsClassified(r) /\ r.list[2] \in { "inplace", "comparison", "unary" }
                        => Occurrences(r.list[1] \o << " " >>, val) # { }
                               \/ Occurrences(<< " " >> \o r.list[1], val) # { }

\* C9 witness: the operators section was rendered for a class whose first
\* operator is unclassified and whose second is an inplace operator: one
\* diagnostic was printed and the text holds the binding of the second.
C9_Witness ==
    /\ pc = "emitted"
    /\ Len(operators) = 2
    /\ IsUnclassified(classify_operator(dialect, operators[1]))
    /\ classify_operator(dialect, operators[2]) = Some(<< << "+", "=" >>, "inplace" >>)
    /\ log = << UnclassifiedDiagnostic >>
    /\ Occurrences(<< "+", "=" >>, val) # { }

\* The token of a function name: the text after "operator", without the
\* white space around it.
TokenOf(f) == Strip(SubSeq(f.name, 9, Len(f.name)), { " ", "\n", "\t" })

\* The table of operator tokens and categories.
CategoryTable(token) ==
    CASE token \in { << "+", "=" >>, << "-", "=" >>, << "*", "=" >>, << "/", "=" >>,
                     << "%", "=" >>, << ">", ">", "=" >>, << "<", "<", "=" >>,
                     << "&", "=" >>, << "^", "=" >>, << "|", "=" >> } -> "inplace"
      [] token \in { << "=", "=" >>, << "!", "=" >>, << "<" >>, << ">" >>,
                     << "<", "=" >>, << ">", "=" >> } -> "comparison"
      [] token \in { << "-" >>, << "+" >>, << "~" >>, << "!" >> } -> "unary"
      [] token = << "[", "]" >> -> "array"
      [] token = << "(", ")" >> -> "access"
      [] token = << "<", "<" >> -> "ostream"
      [] token \in { << "*" >>, << "-", ">" >> } -> "dereference"
      [] token \in { << "+", "+" >>, << "-", "-" >> } -> "crement"
      [] token = << "=" >> -> "assignment"
      [] token = << "b", "o", "o", "l" >> -> "conversion"
      [] OTHER -> "none"

IsOperatorName(f) == StartsWith(f.name, << "o", "p", "e", "r", "a", "t", "o", "r" >>)

\* C10: for a function named "operator" + token, classify_operator returns
\* the token and the category the table gives for it, whatever else the
\* function holds and however the token is spaced; and the classifiers of
\* the two dialects return the same for every function.
C10_ClassifierTable ==
    pc = "classified" =>
        /\ IsOperatorName(op_arg) /\ CategoryTable(TokenOf(op_arg)) # "none"
              => val = Some(<< TokenOf(op_arg), CategoryTable(TokenOf(op_arg)) >>)
        /\ \A f \in ClassifyPool :
              IsOperatorName(f) /\ IsOperatorName(op_arg) /\ TokenOf(f) = TokenOf(op_arg)
                  => classify_operator(dialect, f) = val
        /\ \A d \in Dialects : classify_operator(d, op_arg) = val

\* C10 witness: a conversion operator whose name holds a blank before the
\* token was classified.
C10_Witness ==
    /\ pc = "classified"
    /\ op_arg.name = << "o", "p", "e", "r", "a", "t", "o", "r", " ", "b", "o", "o", "l" >>
    /\ val = Some(<< << "b", "o", "o", "l" >>, "conversion" >>)


(***************************************************************************)
(* Properties of generate_files and generate_docstring_file, checked       *)
(* under SpecFiles.                                                        *)
(***************************************************************************)
\* The classes and the free functions of the tree, as generate_files and
\* generate_docstring_file meet them.
AllClasses   == CppNamespace_get_all_classes(ns_global, << >>)
AllFunctions == CppNamespace_get_all_functions(ns_global, << >>)

\* The functions generate_docstring_file documents: the methods of every
\* class and the free functions that have a brief or a detailed description.
IsDocumented(f) == f.briefdescription # << >> \/ f.detaileddescription # << >>
DocumentedFunctions ==
    { f \in UNION { Range(AllClasses[i].methods) : i \in 1..Len(AllClasses) }
               \cup Range(AllFunctions) : IsDocumented(f) }

\* The documentation table written, and the start of its entry for a
\* signature: the key and the separator that follows it.
DocstringFile == files[PathJoin(Nm.src, Lit(dialect).doc_file)]
EntryKey(sig) == Lit(dialect).entry_open \o sig \o Lit(dialect).entry_mid

\* C6: when two distinct documented functions render to the same signature,
\* a duplicate-signature diagnostic is printed, and no signature is the key
\* of more than one entry of the table written: every documented signature
\* is the key of exactly one entry.
C6_OneEntryPerSignature ==
    pc = "written" =>
        \A f \in DocumentedFunctions :
            LET sig == CppFunction_cpp_signature(f)
            IN  /\ Cardinality(Occurrences(EntryKey(sig), DocstringFile)) = 1
                /\ (\E g \in DocumentedFunctions :
                        g # f /\ CppFunction_cpp_signature(g) = sig)
                       => InList(<< "Warn: Signature already in docstring file:", sig >>,
                                 log)

\* What generate_files reads of a class or a free function, and the text
\* the writer that ran renders for a free function.
EntityOf(e, is_class) ==
    [ is_class  |-> is_class,
      name      |-> e.name,
      full_name |-> e.parent \o Str.scope \o e.name,
      location  |-> e.location,
      template  |-> ~ e.template_params.is_none,
      body      |-> IF is_class THEN << >> ELSE generate_function_body(dialect, e) ]

\* The entities in the order of the two loops of generate_files.
AllEntities ==
    [ i \in 1..Len(AllClasses) |-> EntityOf(AllClasses[i], TRUE) ]
        \o [ i \in 1..Len(AllFunctions) |-> EntityOf(AllFunctions[i], FALSE) ]

\* The components of the fully-qualified name; the name starts with "::",
\* so the first component is empty and the second is the outermost namespace.
NameParts(e) == Split(e.full_name, Str.scope)
InModule(e)  == Len(NameParts(e)) >= 2 /\ NameParts(e)[2] = Nm.genesis
IsAccepted(e) == InModule(e) /\ Len(NameParts(e)) <= 4
IsRejected(e) == InModule(e) /\ Len(NameParts(e)) > 4

\* The scope key: the namespace path inside the module, joined by dots.
ScopeKey(e) ==
    Join(<< "." >>, SubSeq(NameParts(e), 3, Len(NameParts(e)) - 1))

\* The export files an entity was placed in: those that hold a class text
\* under the name of the class, or the text of the function among their
\* functions or function templates.
Holds(exp, e) ==
    IF e.is_class THEN e.name \in DOMAIN exp.class_strings
    ELSE \/ InList(e.body, exp.function_strings)
         \/ \E t \in DOMAIN exp.func_templates : InList(e.body, exp.func_templates[t])
FilesHolding(e) == { f \in DOMAIN export_files : Holds(export_files[f], e) }

\* The scope warnings of the log.
IsScopeWarning(line) == line[1] = "Warn: Multiple scopes in one file:"
ScopeWarnings == SelectSeq(log, IsScopeWarning)

\* The path write_export_files writes the export file f to.
WrittenPath(f) ==
    PathJoin(Nm.src, IF f[1] \in { ".", "/" }
                     THEN << "u", "n", "n", "a", "m", "e", "d" >> \o f ELSE f)

FileKey(e) ==
    SplitExtRoot(e.location)
        \o (IF e.template THEN << ".", "h", "p", "p" >> ELSE << ".", "c", "p", "p" >>)

\* The header an entity is declared in.
IncFile(e) == SplitExtRoot(e.location) \o << ".", "h", "p", "p" >>

\* The accepted entities, and those of them that belong to the file f.
AcceptedEntities == SelectSeq(AllEntities, IsAccepted)
EntitiesOf(f) ==
    LET BelongsTo(e) == FileKey(e) = f IN SelectSeq(AcceptedEntities, BelongsTo)

KnownDiagnostics ==
    { "Warn: Multiple scopes in one file:", "Warn. Export file",
      "Warn: using namespace already set to", "Warn: File already exists:",
      "Warn: Signature already in docstring file:",
      "Weird. Empty operator in class", "Operator type not handled:", "Namespace" }
IsSkipDiagnostic(line) == line[1] \notin KnownDiagnostics

\* C8: an entity of the module whose name has more than 4 components is
\* placed in no export file and a diagnostic of the skip is printed for
\* each such entity; an entity of the module with at most 4 components is
\* placed in an export file.
C8_DeepEntitiesReported ==
    pc = "written" =>
        /\ \A i \in 1..Len(AllEntities) :
              /\ IsRejected(AllEntities[i]) => FilesHolding(AllEntities[i]) = { }
              /\ IsAccepted(AllEntities[i]) => FilesHolding(AllEntities[i]) # { }
        /\ Len(SelectSeq(log, IsSkipDiagnostic)) =
               Cardinality({ i \in 1..Len(AllEntities) : IsRejected(AllEntities[i]) })

(***************************************************************************)
(* Properties of the main program, checked under SpecMain.                 *)
(***************************************************************************)
\* The tree after the two transforms of the main program.
Transformed(tree) ==
    CppNamespace_shorten_location_prefix(
        CppNamespace_extract_iterators(tree, TRUE), << >>, << >>, << >>).tree

\* The output directories generate_files of the boost writer may leave for
\* a tree, one for each order in which the dicts and the function objects
\* may be iterated.
DisksOf(tree, directory) ==
    { generate_files("boost", tree, directory, Nm.genesis, << >>, << >>,
                     order, sorted_functions).disk :
          order \in IterationOrders(
                        CollectExports("boost", tree, Nm.genesis, << >>).export_files),
          sorted_functions \in
              Orderings(Range(CppNamespace_get_all_functions(tree, << >>))) }

\* The output directories the pipeline may leave for a documentation.
PipelineOutputs(index, directory) ==
    UNION { DisksOf(Transformed(parsed.tree), directory) :
                parsed \in { p \in { DoxygenReader_parse_xml_dir(index, pop, << >>) :
                                         pop \in Orderings(MemberLocations(index)) } :
                                 ~p.raised } }

\* C11: running the pipeline again on the same documentation gives the same
\* output: the files written are the files of every run the program can
\* make on this input, whatever the order in which sets and dicts hand out
\* their elements.
C11_ByteIdenticalOutput ==
    pc = "written" => \A disk \in PipelineOutputs(doc, src_dir) : disk = files

\* The compounds of kind class or struct of the index, in order.
IsClassCompound(compound) == compound.kind \in { Xml.class, Xml.struct }
ClassCompounds(index) == SelectSeq(index, IsClassCompound)

\* A class declared at global scope: its qualified name has one component.
IsGlobalScope(compound) == Len(Split(compound.name, Str.scope)) = 1

\* The members of the function sections of a compound of the index.
MembersOfCompound(compound) ==
    IF compound.kind \in { Xml.class, Xml.struct }
    THEN MembersOf(compound.file[1], { Xml.public_func, Xml.public_static_func })
    ELSE IF compound.kind = Xml.namespace
    THEN MembersOf(compound.file[1], { Xml.func })
    ELSE << >>

\* The malformed members: a child of a section that is no memberdef element
\* (parse_function returns None for it), or a member that is no function.
IsNoMemberDef(m)  == m.member.kind = Xml.function /\ m.member.tag # Xml.memberdef
IsNoFunction(m)   == m.member.kind # Xml.function
MalformedMembers(compound) ==
    { m \in Range(MembersOfCompound(compound)) : IsNoMemberDef(m) \/ IsNoFunction(m) }

\* The full name parse_xml_dir registers the class of a compound under.
RegisteredName(compound) == Str.scope \o compound.name

\* The lines of the log that report a skipped member.
SkipDiagnostics ==
    SelectSeq(log, LAMBDA line :
        line # << >> /\ line[1] \in { "Invalid xml tag:", "Invalid member kind:",
                                      "Weird. Member in section" })

\* C12: the reader does not abort on a malformed record.  For a
\* documentation whose classes all lie in a namespace, parse_xml_dir
\* returns; every malformed member has given a diagnostic, and the class of
\* every class compound is registered with its well-formed members.
C12_MalformedRecordsSkipped ==
    (\A i \in 1..Len(doc) : IsClassCompound(doc[i]) => ~IsGlobalScope(doc[i])) =>
        /\ pc = "exited" => status = "0"
        /\ pc = "parsed" =>
              /\ Len(SkipDiagnostics) >=
                     Cardinality({ i \in 1..Len(doc) : MalformedMembers(doc[i]) # { } })
              /\ \A i \in 1..Len(doc) :
                    IsClassCompound(doc[i]) =>
                        RegisteredName(doc[i]) \in DOMAIN ns_global.classes

\* C13: with more than two arguments the program prints the usage, parses
\* nothing, writes nothing and ends with a non-zero exit status; otherwise
\* it takes the directories from the arguments given and ./xml and ./src
\* for those not given.
C13_UsageError ==
    pc # "start" =>
        IF Len(argv) > 3
        THEN /\ pc = "exited"
             /\ log = << << "Usage:", argv[1],
                            "[input_xml_dir=\"./xml\"] [output_src_dir=\"./src\"]" >> >>
             /\ ns_global = CppNamespace
             /\ files = << >>
             /\ status \notin { "running", "0" }
        ELSE /\ xml_dir = (IF Len(argv) >= 2 THEN Strip(argv[2], { "/" }) ELSE Nm.xml)
             /\ src_dir = (IF Len(argv) >= 3 THEN Strip(argv[3], { "/" }) ELSE Nm.src)

\* The namespaces above and including the one with the components parts.
NamespaceChain(parts) ==
    { [ parent |-> Concat([ j \in 1..(i - 1) |-> Str.scope \o parts[j] ]),
        name   |-> parts[i] ] : i \in 1..Len(parts) }

\* C14: for every class or struct compound n1::...::nk::C of the index,
\* k >= 0, the namespaces n1, n1::n2, ... exist below the root after
\* parse_xml_dir and the class is registered in the innermost one, the
\* root for k = 0.  Stated for a documentation without a child of a section
\* that is no memberdef element; parse_xml_dir has returned or raised.
C14_ClassInNamespaceChain ==
    ( /\ pc = "parsed" \/ (pc = "exited" /\ status = "1")
      /\ \A i \in 1..Len(doc) :
            \A m \in Range(MembersOfCompound(doc[i])) : ~IsNoMemberDef(m) ) =>
        \A i \in 1..Len(doc) :
            IsClassCompound(doc[i]) =>
                LET parts == Split(doc[i].name, Str.scope)
                IN  /\ NamespaceChain(SubSeq(parts, 1, Len(parts) - 1))
                           \subseteq ns_global.namespaces
                    /\ RegisteredName(doc[i]) \in DOMAIN ns_global.classes
                    /\ ns_global.classes[RegisteredName(doc[i])].parent =
                           Concat([ j \in 1..(Len(parts) - 1) |-> Str.scope \o parts[j] ])
                    /\ ns_global.classes[RegisteredName(doc[i])].name = parts[Len(parts)]

(***************************************************************************)
(* Properties of shorten_location_prefix, checked under SpecPipeline and   *)
(* SpecMain.                                                               *)
(***************************************************************************)
\* The location shorten_location_prefix is to leave for the location.
ShortenedBy(P, location) ==
    IF StartsWith(location, P) THEN DropFirst(location, Len(P)) ELSE location

\* The member functions of a class, bucket after bucket.
MemberFunctions(clss) == clss.ctors \o clss.dtors \o clss.methods \o clss.operators

\* Every class, member function and free function of the tree after has
\* the location of its counterpart in the tree before, shortened by P.
LocationsShortenedBy(P, before, after) ==
    /\ \A k \in DOMAIN before.classes :
          /\ after.classes[k].location = ShortenedBy(P, before.classes[k].location)
          /\ \A i \in 1..Len(MemberFunctions(before.classes[k])) :
                MemberFunctions(after.classes[k])[i].location =
                    ShortenedBy(P, MemberFunctions(before.classes[k])[i].location)
    /\ \A k \in DOMAIN before.functions :
          after.functions[k].location = ShortenedBy(P, before.functions[k].location)

\* The number of classes and functions of the tree whose location does not
\* start with P.
NotStartingWith(P, tree) ==
    Len(SelectSeq(
        Concat([ i \in 1..Len(CppNamespace_get_all_classes(tree, << >>)) |->
                   << CppNamespace_get_all_classes(tree, << >>)[i] >>
                       \o MemberFunctions(CppNamespace_get_all_classes(tree, << >>)[i]) ])
            \o CppNamespace_get_all_functions(tree, << >>),
        LAMBDA e : ~StartsWith(e.location, P)))

\* The warnings of shorten_location_prefix among the lines.
LocationWarnings(lines) ==
    SelectSeq(lines, LAMBDA line :
        line # << >> /\ line[1] \in { "Location of class", "Location of function" })

\* The call of shorten_location_prefix with a prefix given by the caller.
ShortenWithPrefix ==
    /\ pc = "extracted"
    /\ pc' = "shortened"
    /\ shorten_prefix' # << >>

\* C15: after shorten_location_prefix on the root with the prefix P, every
\* class and every function of the tree (free function, constructor,
\* destructor, method, operator) whose location started with P has its
\* location without the leading P, also a member function of a class whose
\* own location does not start with P; a location that did not start with P
\* is unchanged and has given a warning.
C15_EveryLocationShortened ==
    [][ShortenWithPrefix =>
          /\ LocationsShortenedBy(shorten_prefix', ns_global, ns_global')
          /\ Len(LocationWarnings(log')) = NotStartingWith(shorten_prefix', ns_global)]_vars

\* The locations of all classes of the tree, as get_file_locations of the
\* root collects them.
ClassLocations(tree) ==
    { tree.classes[k].location : k \in DOMAIN tree.classes } \ { << >> }

\* The call of shorten_location_prefix of the main program, without a prefix.
ShortenWithoutPrefix ==
    /\ pc = "extracted"
    /\ pc' = "shortened"
    /\ shorten_prefix' = << >>

\* C16: shorten_location_prefix without a prefix uses one prefix for the
\* whole tree, the longest common prefix of the locations of all classes,
\* computed before any location is changed: every namespace at every depth
\* strips that prefix, and when it is the empty string no location changes.
C16_OnePrefixForTheTree ==
    [][ShortenWithoutPrefix =>
          LocationsShortenedBy(CommonPrefix(ClassLocations(ns_global)),
                               ns_global, ns_global')]_vars

(***************************************************************************)
(* Properties of generate_class_header, checked under SpecHeader.          *)
(***************************************************************************)
\* A constructor with exactly one parameter, of type "<class name> &&".
IsMoveShaped(ctor) ==
    Len(ctor.params) = 1 /\ ctor.params[1].type = name \o << " ", "&", "&" >>

\* The constructors of the class that are not move-constructor-shaped.
OtherCtors == SelectSeq(ctors, LAMBDA ctor : ~IsMoveShaped(ctor))

\* The text by which the writer that ran renders a constructor: the
\* template arguments and the arguments of init.
RenderedCtor(ctor) ==
    IF dialect = "pybind11" THEN Pybind11ConstructorBlock(ctor)
    ELSE BoostPythonWriter_generate_class_constructor(ctor)

\* C17: in both dialects a move-constructor-shaped constructor is never
\* rendered into the class header, whatever its position in the
\* constructor list; every other constructor is rendered once, in list
\* order: the header is the header of the class without its
\* move-constructor-shaped constructors, and the text of no such
\* constructor occurs in it.
C17_MoveConstructorNotRendered ==
    pc = "emitted" =>
        /\ val = generate_class_header(dialect, [ self EXCEPT !.ctors = OtherCtors ])
        /\ \A i \in 1..Len(ctors) :
              IsMoveShaped(ctors[i]) => Occurrences(RenderedCtor(ctors[i]), val) = { }
        /\ \A i \in 1..Len(OtherCtors) :
              Cardinality(Occurrences(RenderedCtor(OtherCtors[i]), val)) =
                  Cardinality({ j \in 1..Len(OtherCtors) :
                                    RenderedCtor(OtherCtors[j]) = RenderedCtor(OtherCtors[i]) })

(***************************************************************************)
(* Properties of the reader and the writers on the tree, checked under     *)
(* SpecPipeline and SpecMain.                                              *)
(***************************************************************************)
\* The tree as the reader returns it for the documentation, before the
\* transforms (for one of the orders of the set of locations, which the
\* functions of the tree do not depend on).
TreeRead ==
    DoxygenReader_parse_xml_dir(
        doc, CHOOSE pop \in Orderings(MemberLocations(doc)) : TRUE, << >>).tree

\* Every Function of a tree: the members of the classes and the free
\* functions.
FunctionsOf(tree) ==
    UNION { Range(MemberFunctions(tree.classes[k])) : k \in DOMAIN tree.classes }
        \cup { tree.functions[k] : k \in DOMAIN tree.functions }

\* The documentation table the writer that ran has written.
DocTable == files[PathJoin(src_dir, Lit(dialect).doc_file)]

\* C18: after generate_docstring_file the documentation table has an entry
\* for every function read that has a brief or a detailed description (free
\* function, constructor, method, operator, method turned into an iterator)
\* and no entry for a function that has neither.
C18_EveryDocumentedFunctionListed ==
    pc = "written" =>
        \A f \in FunctionsOf(TreeRead) :
            IsDocumented(f)
                <=> Occurrences(EntryKey(CppFunction_cpp_signature(f)), DocTable) # { }

\* C19: generate_files, in both dialects, leaves every field of every
\* namespace, class, function, parameter and iterator of the tree unchanged.
C19_EmitterReadOnly ==
    [][(pc # "written" /\ pc' = "written") => ns_global' = ns_global]_vars

\* C19 witness: the pybind11 writer has generated the files for a tree with
\* the class Tree, for whose documented constructor Tree(int i) it calls
\* cpp_signature; the default value of i was read from an empty element.
C19_Witness ==
    /\ pc = "written"
    /\ dialect = "pybind11"
    /\ \E k \in DOMAIN ns_global.classes :
          \E i \in 1..Len(ns_global.classes[k].ctors) :
              /\ TakesSignature(dialect, "ctors", ns_global.classes[k],
                                ns_global.classes[k].ctors[i])
              /\ Len(ns_global.classes[k].ctors[i].params) = 1
              /\ ns_global.classes[k].ctors[i].params[1].value = << >>
    /\ \E i \in 1..Len(doc) :
          \E m \in Range(MembersOfCompound(doc[i])) :
              \E j \in 1..Len(m.member.func.params) :
                  m.member.func.params[j].value = NoneText

\* The class compounds and the namespace compounds of the index that have
\* the same qualified name as compound i and come before it.
Earlier(i) ==
    { j \in 1..(i - 1) : doc[j].name = doc[i].name
                           /\ IsClassCompound(doc[j]) = IsClassCompound(doc[i])
                           /\ doc[j].kind # Xml.file }

\* The class the reader hands to add_class for the class compound i, when
\* the set of locations hands out its elements in the order pop.
ClassRead(i, pop) ==
    WithParent(ParseClassDef(doc[i].file[1], pop).clss,
               Concat([ j \in 1..(Len(Split(doc[i].name, Str.scope)) - 1) |->
                          Str.scope \o Split(doc[i].name, Str.scope)[j] ]))

\* The functions the reader hands to add_function for the namespace
\* compound i, in call order.
FunctionsRead(i) ==
    [ j \in 1..Len(DoxygenReader_parse_namespace_file(doc[i].file).functions) |->
        [ DoxygenReader_parse_namespace_file(doc[i].file).functions[j]
            EXCEPT !.parent = Str.scope \o doc[i].name ] ]

\* All functions handed to add_function, in call order.
FunctionsRegistered ==
    Concat([ i \in 1..Len(doc) |->
               IF doc[i].kind = Xml.namespace THEN FunctionsRead(i) ELSE << >> ])

\* The lines add_class and add_function print for a key that exists.
DuplicateLines(what) ==
    SelectSeq(log, LAMBDA line : Len(line) = 4 /\ line[1] = "Namespace" /\ line[3] = what)

\* C20: registering a class or a function under a key that exists is not
\* fatal and the first one wins: parse_xml_dir raises only for an index
\* with a compound for which it raises when it is the only one; when it
\* returns, every key of the classes and of the functions maps to the first
\* entity registered under it, and every later registration under the key
\* has printed a line.
C20_FirstRegistrationWins ==
    /\ (pc = "exited" /\ status = "1") =>
           \E i \in 1..Len(doc) :
               DoxygenReader_parse_xml_dir(
                   << doc[i] >>, CHOOSE pop \in Orderings(MemberLocations(doc)) : TRUE,
                   << >>).raised
    /\ pc = "parsed" =>
        /\ \E pop \in Orderings(MemberLocations(doc)) :
              \A i \in 1..Len(doc) :
                  (IsClassCompound(doc[i]) /\ Earlier(i) = { }) =>
                      ns_global.classes[RegisteredName(doc[i])] = ClassRead(i, pop)
        /\ \A i \in 1..Len(FunctionsRegistered) :
              (\A j \in 1..(i - 1) :
                    CppFunction_cpp_signature(FunctionsRegistered[j])
                        # CppFunction_cpp_signature(FunctionsRegistered[i])) =>
                  ns_global.functions[CppFunction_cpp_signature(FunctionsRegistered[i])]
                      = CppFunction_after_cpp_signature(FunctionsRegistered[i])
        /\ Len(DuplicateLines("already contains a class named")) =
               Cardinality({ i \in 1..Len(doc) : IsClassCompound(doc[i]) /\ Earlier(i) # { } })
        /\ Len(DuplicateLines("already contains a function named")) =
               Len(FunctionsRegistered)
                   - Cardinality({ CppFunction_cpp_signature(FunctionsRegistered[i]) :
                                       i \in 1..Len(FunctionsRegistered) })

\* C20 witness: parse_xml_dir has returned for an index of two different
\* compounds of the same qualified name, and the line is printed.
C20_Witness ==
    /\ pc = "parsed"
    /\ Len(doc) = 2
    /\ doc[1] # doc[2]
    /\ Earlier(2) = { 1 }
    /\ Len(DuplicateLines("already contains a class named"))
           + Len(DuplicateLines("already contains a function named")) = 1

(***************************************************************************)
(* Properties of extract_iterators, checked under Spec and SpecAgain.      *)
(***************************************************************************)
\* C25: every iterator extract_iterators produces refers to a pair of
\* methods: its begin name and its end name are two different names, and
\* each was the name of a method of the class before the call; also for a
\* method name that matches 'begin...' case-insensitively only.
C25_IteratorsNamePairs ==
    pc = "transformed" =>
        \A i \in 1..Len(iterators) :
            /\ iterators[i].begin # iterators[i].end
            /\ iterators[i].begin \in Names(MethodsBefore)
            /\ iterators[i].end \in Names(MethodsBefore)

RECURSIVE IsSubList(_, _)
\* ms is an order-preserving sub-list of the list all.
IsSubList(ms, all) ==
    IF ms = << >> THEN TRUE
    ELSE IF all = << >> THEN FALSE
    ELSE IF Head(ms) = Head(all) THEN IsSubList(Tail(ms), Tail(all))
    ELSE IsSubList(ms, Tail(all))

\* C29: extract_iterators changes only the method list and the iterator
\* list of a class: constructors, destructors, operators, name, parent and
\* location are unchanged; the iterators it finds stay; the method list
\* after the call is an order-preserving sub-list of the list before; a
\* method is removed only if its name is the begin or the end of an
\* iterator the call created; with all_named = False only methods named
\* 'begin' or 'end' are removed and no named iterator is created.
C29_ExtractIteratorsFrame ==
    [][(pc = "parse" /\ pc' = "transformed") =>
          /\ << ctors, dtors, operators, name, parent, clss_location >>'
                 = << ctors, dtors, operators, name, parent, clss_location >>
          /\ SubSeq(iterators', 1, Len(iterators)) = iterators
          /\ IsSubList(methods', methods)
          /\ \A i \in 1..Len(methods) :
                (\A j \in 1..Len(methods') : methods'[j] # methods[i]) =>
                    /\ \E k \in (Len(iterators) + 1)..Len(iterators') :
                           methods[i].name \in { iterators'[k].begin, iterators'[k].end }
                    /\ ~call'.all_named => methods[i].name \in { Str.begin, Str.end }
          /\ ~call'.all_named =>
                \A k \in (Len(iterators) + 1)..Len(iterators') :
                    iterators'[k] = CppIterator(Str.iter, Str.begin, Str.end)
      ]_vars

\* C29 witness: extract_iterators(False) has run on a class with the
\* methods begin, end, beginX and endX: the default iterator is there and
\* beginX, endX are still methods.
C29_Witness ==
    /\ pc = "transformed"
    /\ ~call.all_named
    /\ Names(MethodsBefore) = { Str.begin, Str.end, Nm.beginX, Nm.endX }
    /\ Len(iterators) = 1
    /\ Names(methods) = { Nm.beginX, Nm.endX }

\* C30: extract_iterators is idempotent: the same call once more, right
\* after the first, changes neither the method list nor the iterator list,
\* and the iterator names of the class stay pairwise distinct.
C30_ExtractIdempotent ==
    pc = "transformed again" =>
        /\ methods = call.methods
        /\ iterators = call.iterators
        /\ IteratorNamesDistinct

(***************************************************************************)
(* Properties of the class loop of generate_files, checked under           *)
(* SpecFiles.                                                              *)
(***************************************************************************)
\* The accepted classes, and the class blocks of the export files: the
\* pairs of an export file and a key of its dict class_strings.
AcceptedClasses == SelectSeq(AcceptedEntities, LAMBDA e : e.is_class)
ClassBlocks ==
    UNION { { << f, c >> : c \in DOMAIN export_files[f].class_strings } :
                f \in DOMAIN export_files }

\* C27: no accepted class is lost during bucketing: after generate_files
\* every class that passed the module and depth filters has its own block
\* in exactly one export file, the file of its location, and the number of
\* class blocks over all export files is the number of accepted classes;
\* also for two classes of the same short name and location.
C27_NoAcceptedClassLost ==
    pc = "written" =>
        /\ \A i \in 1..Len(AcceptedClasses) :
              { b \in ClassBlocks : b[2] = AcceptedClasses[i].name
                                      /\ b[1] = FileKey(AcceptedClasses[i]) }
                  = { << FileKey(AcceptedClasses[i]), AcceptedClasses[i].name >> }
        /\ Cardinality(ClassBlocks) = Len(AcceptedClasses)

(***************************************************************************)
(* Properties of the reader and of shorten_location_prefix, checked under  *)
(* SpecMain and SpecPipeline.                                              *)
(***************************************************************************)
\* C28: shortening with the computed prefix never empties a location: after
\* shorten_location_prefix() on the root every class whose location was
\* not empty before still has a location that is not empty; also for a
\* tree of a single class and for classes declared in the same file.
C28_ShortenKeepsLocations ==
    [][(pc = "extracted" /\ pc' = "shortened" /\ shorten_prefix' = << >>) =>
          \A k \in DOMAIN ns_global.classes :
              ns_global.classes[k].location # << >>
                  => ns_global'.classes[k].location # << >>
      ]_vars

\* The locations of the public member functions of the class compound i of
\* the index, in the order the reader parses them.
MemberLocationsOf(i) ==
    [ j \in 1..Len(SelectSeq(MembersOfCompound(doc[i]), LAMBDA m : ~IsNoFunction(m))) |->
        SelectSeq(MembersOfCompound(doc[i]), LAMBDA m : ~IsNoFunction(m))[j]
            .member.func.location ]

\* The lines of the log that warn of several locations of the class cname.
LocationWarningsOf(cname) ==
    SelectSeq(log, LAMBDA line :
        Len(line) = 4 /\ line[1] = "Weird. Multiple locations for class" /\ line[2] = cname)

\* C21: for every class parse_class_file parses: when its public member
\* functions have one distinct location, that is the class location; when
\* they have several, a warning is printed and the class location is the
\* location of the first member function parsed; when the class has no
\* public member function, the class location is the location attribute
\* of the compound.
C21_ClassLocation ==
    pc = "parsed" =>
        \A i \in 1..Len(doc) :
            (IsClassCompound(doc[i]) /\ Earlier(i) = { }) =>
                LET clss == ns_global.classes[RegisteredName(doc[i])]
                    locs == MemberLocationsOf(i)
                IN  /\ Len(locs) = 0 => clss.location = doc[i].file[1].location
                    /\ Len(locs) > 0 => clss.location = locs[1]
                    /\ Cardinality(Range(locs)) > 1 <=> LocationWarningsOf(clss.name) # << >>

\* The full names of the namespaces of the tree; the root has the empty one.
NamespaceNames == { << >> } \cup { CppNamespace_cpp_full_name(n) : n \in ns_global.namespaces }

\* C22: in the tree parse_xml_dir returns and after every transform pass,
\* every namespace but the root has a name and a parent that is a namespace
\* of the tree; every class registered has a namespace of the tree as parent
\* and is keyed by its fully-qualified name; every function in the four
\* buckets of a class has the class as parent; every free function
\* registered has a namespace of the tree as parent and is keyed by its
\* signature.
C22_ParentsAndKeys ==
    pc \in { "parsed", "extracted", "shortened" } =>
        /\ \A n \in ns_global.namespaces :
              n.name # << >> /\ n.parent \in NamespaceNames
        /\ \A k \in DOMAIN ns_global.classes :
              /\ ns_global.classes[k].parent \in NamespaceNames
              /\ k = CppClass_cpp_full_name(ns_global.classes[k])
              /\ \A f \in Range(MemberFunctions(ns_global.classes[k])) : f.parent = k
        /\ \A k \in DOMAIN ns_global.functions :
              /\ ns_global.functions[k].parent \in NamespaceNames
              /\ k = CppFunction_cpp_signature(ns_global.functions[k])

\* C22 witness: the transforms have run on a tree with a class that has
\* member functions and an iterator, in a namespace below a namespace, and
\* with a free function.
C22_Witness ==
    /\ pc = "shortened"
    /\ \E k \in DOMAIN ns_global.classes :
          /\ ns_global.classes[k].ctors # << >>
          /\ ns_global.classes[k].iterators # << >>
          /\ Len(Split(ns_global.classes[k].parent, Str.scope)) = 3
    /\ DOMAIN ns_global.functions # { }

(***************************************************************************)
(* Properties of the documentation lookups, checked under SpecPipeline.    *)
(***************************************************************************)
\* The signature of a function as the writer that ran puts it into a
\* string literal.
SignatureLiteral(f) ==
    IF dialect = "pybind11" THEN CppEscapeString(CppFunction_cpp_signature(f))
    ELSE CppFunction_cpp_signature(f)

\* The lookup of the documentation of the function f in a binding file.
DocstringLookup(f) ==
    << "g", "e", "t", "_", "d", "o", "c", "s", "t", "r", "i", "n", "g", "(" >> \o << "\"" >> \o SignatureLiteral(f) \o << "\"", ")" >>

\* The binding files written: every file of the output directory but the
\* documentation table.
BindingFiles == DOMAIN files \ { PathJoin(src_dir, Lit(dialect).doc_file) }

\* C26: every docstring lookup written into a binding file resolves: for
\* every get_docstring(<signature>) in a binding file (for a constructor, a
\* method, the index operator or a free function) the documentation table
\* written in the same run has an entry whose key is that signature text.
C26_LookupsResolve ==
    pc = "written" =>
        \A f \in FunctionsOf(ns_global) :
            (\E path \in BindingFiles : Occurrences(DocstringLookup(f), files[path]) # { })
                => Occurrences(EntryKey(SignatureLiteral(f)), DocTable) # { }

(***************************************************************************)
(* Properties of cpp_signature, checked under SpecSignatures.              *)
(***************************************************************************)
\* What identifies a function: its qualified name, the types of its
\* parameters in order, and its const qualifier.
IdentityOf(f) ==
    << f.parent, f.name, [ i \in 1..Len(f.params) |-> f.params[i].type ], f.const >>

\* C24: the signature used as key is determined by the qualified name, the
\* ordered parameter types and the const qualifier only: two functions
\* handed to add_function that agree in these have the same cpp_signature,
\* whatever their parameter names, default values, return type or static
\* flag, and the second is not registered; two functions that differ in one
\* of them have different signatures.
C24_SignatureIsIdentity ==
    /\ \A i, j \in 1..Len(added) :
          IdentityOf(added[i]) = IdentityOf(added[j])
              <=> CppFunction_cpp_signature(added[i]) = CppFunction_cpp_signature(added[j])
    /\ Cardinality(DOMAIN ns_global.functions)
           = Cardinality({ IdentityOf(added[i]) : i \in 1..Len(added) })

(***************************************************************************)
(* C23                                                                     *)
(***************************************************************************)
\* The text the run writes to path in all: the texts of the writes between
\* the open of path and its close.
FinalText(plan, path) ==
    LET closed == CHOOSE k \in 1..Len(plan) : plan[k].op = "close" /\ plan[k].path = path
    IN  WrittenAt(plan, closed)

\* The paths the run writes.
OutputPaths(plan) == { plan[k].path : k \in 1..Len(plan) }

\* C23: the tool never partially writes an output file: in every reachable
\* state, also one in which the run stops between two steps of emission,
\* each output file does not exist, has the content it had before the run,
\* or holds its complete final text.
C23_NoPartialFile ==
    \A path \in DOMAIN files :
        \/ \E disk \in Disks : path \in DOMAIN disk /\ files[path] = disk[path]
        \/ path \in OutputPaths(write_plan) /\ files[path] = FinalText(write_plan, path)
=============================================================================
